---- MODULE Spec2Model ----
(***************************************************************************)
(* A model of the test-matrix generator of cfme_tests (utils/testgen.py):  *)
(* the generators provider_by_type, cloud_providers, infra_providers,      *)
(* auth_groups and pxe_servers, the helpers fixture_filter, param_check    *)
(* and parametrize, and the pytest_generate_tests hook built by generate.  *)
(*                                                                         *)
(* Python values are tagged records, so that a row of a matrix can hold    *)
(* strings, None, dicts and live objects side by side.  Python's 0-based   *)
(* list positions are 1-based sequence positions here.                     *)
(***************************************************************************)
EXTENDS Integers, Sequences, FiniteSets, TLC

VARIABLES
    cfme_data,  \* utils.conf.cfme_data: the loaded inventory configuration
    pc,         \* "call": inputs drawn, nothing run yet; "done": one call ran
    op,         \* the function that ran ("" before the call)
    args,       \* the arguments of the call (metafunc among them)
    ret,        \* what the call returned, or the exception it raised
    log,        \* records written to utils.log.logger, in order
    live,       \* live objects constructed (constructor calls), in order
    engine,     \* calls of metafunc.parametrize (the external engine), in order
    marks,      \* pytest marks applied to test functions
    files,      \* the yaml files of the conf directory: name -> parsed content
    conf,       \* utils.conf: the Config cache, config name -> loaded mapping
    ui,         \* calls made to the external UI collaborators, in order
    entity,     \* the domain entity the operation runs on (self.__dict__)
    nav_tree,   \* the navigation tree of ui_navigate: its nodes
    branches,   \* the add_branch calls made on the tree, with their outcome
    table_cache, \* Db._table_cache: the table classes cached by table name
    dbs,        \* the Db instances: the tables each one's metadata has reflected
    policy_rows, \* the policy profile rows of the host's tree: name -> checked
    location,   \* the navigator's marker of the node the UI is assumed to be at
    generators  \* the generators made by Db.values and Db.items, and how far
                \* each one was advanced

vars ==
    <<cfme_data, pc, op, args, ret, log, live, engine, marks, files, conf, ui,
      entity, nav_tree, branches, table_cache, dbs, policy_rows, location, generators>>

\* the state the test-matrix generator does not touch
othervars ==
    <<files, conf, ui, entity, nav_tree, branches, table_cache, dbs,
      policy_rows, location, generators>>

----------------------------------------------------------------------------
(* Bounds of the model                                                     *)

\* longest argnames list and longest row drawn for the helper functions
MaxLen == 3
\* most rows drawn for the helper functions
MaxRows == 2
\* most items in one section of the inventory
MaxItems == 2

----------------------------------------------------------------------------
(* Python values                                                           *)

PyNone == [kind |-> "None"]
PyTrue == [kind |-> "bool", v |-> TRUE]
PyFalse == [kind |-> "bool", v |-> FALSE]
Str(s) == [kind |-> "str", v |-> s]
PyInt(n) == [kind |-> "int", v |-> n]
Dict(d) == [kind |-> "dict", v |-> d]
List(l) == [kind |-> "list", v |-> l]

\* Python truth value of a tagged value
Truthy(x) ==
    CASE x.kind = "None" -> FALSE
      [] x.kind = "bool" -> x.v
      [] x.kind = "str" -> x.v # ""
      [] x.kind = "int" -> x.v # 0
      [] x.kind = "list" -> x.v # <<>>
      [] x.kind = "dict" -> DOMAIN x.v # {}
      [] OTHER -> TRUE

InSeq(x, s) == \E i \in 1..Len(s) : s[i] = x

\* F(v), with v evaluated once: a local variable assigned v and then used by F
Bind(v, F(_)) == CHOOSE r \in {F(x) : x \in {v}} : TRUE

\* the sequences over S of length at most n
SeqsUpTo(S, n) == UNION {[1..k -> S] : k \in 0..n}

\* the sequences over S of length at most n that repeat no element
DistinctSeqs(S, n) ==
    {s \in SeqsUpTo(S, n) : \A i, j \in 1..Len(s) : i # j => s[i] # s[j]}

\* sep.join(parts) for a list of strings
RECURSIVE Join(_, _)
Join(sep, parts) ==
    IF parts = <<>> THEN ""
    ELSE IF Len(parts) = 1 THEN parts[1]
    ELSE parts[1] \o sep \o Join(sep, Tail(parts))

----------------------------------------------------------------------------
(* utils/testgen.py: param_check, parametrize, fixture_filter              *)

\* any(argvalues): some row is truthy; a row is a list, truthy when non-empty
any(argvalues) == \E i \in 1..Len(argvalues) : argvalues[i] # <<>>

\* faulty variant: `elif argvalues:` instead of `elif any(argvalues):`
param_check_has_values_listcheck(argvalues) == argvalues # <<>>

\* the elif of param_check: values were generated
param_check_has_values(argvalues) == any(argvalues)

\* getattr(obj, '__name__', None) of metafunc.module / metafunc.cls, which are
\* modelled by their name (a str) or None
getattr_name(obj) == IF obj.kind = "str" THEN obj ELSE PyNone

\* '.'.join(filter(None, (modname, classname, funcname)))
test_name(metafunc) ==
    LET parts == <<getattr_name(metafunc.module), getattr_name(metafunc.cls),
                   Str(metafunc.function)>>
        kept == SelectSeq(parts, Truthy)
    IN  Join(".", [i \in 1..Len(kept) |-> kept[i].v])

skip_msg(metafunc) ==
    "Parametrization for " \o test_name(metafunc)
        \o " yielded no values, marked for uncollection"

\* param_check: the returned value, the records logged and the marks applied
param_check(metafunc, argnames, argvalues) ==
    IF argnames = <<>>
    THEN [ret |-> PyFalse, log |-> <<>>, marks |-> {}]
    ELSE IF param_check_has_values(argvalues)
    THEN [ret |-> PyTrue, log |-> <<>>, marks |-> {}]
    ELSE [ret |-> PyNone,
          log |-> <<[level |-> "warning", msg |-> skip_msg(metafunc)]>>,
          marks |-> {[mark |-> "uncollect", function |-> metafunc.function]}]

\* faulty variant: parametrize unless param_check said False
parametrize_needed_unless_false(check) == check.ret # PyFalse

\* `if param_check(...)`: the truth value of what param_check returned
parametrize_needed(check) == Truthy(check.ret)

\* parametrize: param_check's effects, and the engine call when it is made
parametrize(metafunc, argnames, argvalues, kwargs) ==
    Bind(param_check(metafunc, argnames, argvalues), LAMBDA check :
        [log |-> check.log, marks |-> check.marks,
         engine |-> IF parametrize_needed(check)
                    THEN <<[argnames |-> argnames, argvalues |-> argvalues,
                            kwargs |-> kwargs]>>
                    ELSE <<>>])

\* faulty variant: the positions whose name is NOT a fixture name
keep_index_inverted(metafunc, argnames) ==
    SelectSeq([i \in 1..Len(argnames) |-> i],
              LAMBDA i : argnames[i] \notin metafunc.fixturenames)

\* keep_index = [e[0] for e in enumerate(argnames) if e[1] in metafunc.fixturenames]
keep_index(metafunc, argnames) ==
    SelectSeq([i \in 1..Len(argnames) |-> i],
              LAMBDA i : argnames[i] \in metafunc.fixturenames)

\* f = lambda l: [e[1] for e in enumerate(l) if e[0] in keep_index]
keep_items(keep, l) ==
    LET idx == SelectSeq([j \in 1..Len(l) |-> j], LAMBDA j : InSeq(j, keep))
    IN  [k \in 1..Len(idx) |-> l[idx[k]]]

\* faulty variant: the rows are filtered, the argnames are returned whole
fixture_filter_keeps_argnames(metafunc, argnames, argvalues) ==
    Bind(keep_index(metafunc, argnames), LAMBDA keep :
        [argnames |-> argnames,
         argvalues |-> [r \in 1..Len(argvalues) |-> keep_items(keep, argvalues[r])]])

fixture_filter(metafunc, argnames, argvalues) ==
    Bind(keep_index(metafunc, argnames), LAMBDA keep :
        [argnames |-> keep_items(keep, argnames),
         argvalues |-> [r \in 1..Len(argvalues) |-> keep_items(keep, argvalues[r])]])

----------------------------------------------------------------------------
(* Inputs of the helper functions                                          *)

FixtureNames == {"x", "y", "z"}

\* the test functions: with or without a module and a class
Metafuncs(names) ==
    [fixturenames : SUBSET names,
     module : {PyNone, Str("test_mod")},
     cls : {PyNone, Str("TestCls")},
     function : {"test_fn"}]

\* the matrix with rows of the given lengths; every cell is its own value
Matrix(shape) ==
    [i \in 1..Len(shape) |-> [j \in 1..shape[i] |-> PyInt(10 * i + j)]]

Matrices == {Matrix(shape) : shape \in SeqsUpTo(0..MaxLen, MaxRows)}

\* no yaml file read, no UI driven, no entity built, no navigation tree yet
OthersIdle ==
    /\ files = <<>>
    /\ conf = <<>>
    /\ ui = <<>>
    /\ entity = <<>>
    /\ nav_tree = {}
    /\ branches = {}
    /\ table_cache = <<>>
    /\ dbs = <<>>
    /\ policy_rows = <<>>
    /\ location = ""
    /\ generators = <<>>

EmptyConfig ==
    [management_systems |-> <<>>, pxe_servers |-> <<>>,
     auth_modes |-> PyNone, group_roles |-> <<>>]

NoKwargs == [ids |-> PyNone, scope |-> "function", indirect |-> FALSE]

InitParam ==
    /\ cfme_data = EmptyConfig
    /\ pc = "call"
    /\ op = ""
    /\ args \in [metafunc : Metafuncs(FixtureNames),
                 argnames : DistinctSeqs(FixtureNames, MaxLen),
                 argvalues : Matrices]
    /\ ret = PyNone
    /\ log = <<>>
    /\ live = <<>>
    /\ engine = <<>>
    /\ marks = {}
    /\ OthersIdle

ParamCheck ==
    /\ pc = "call"
    /\ LET r == param_check(args.metafunc, args.argnames, args.argvalues)
       IN  /\ ret' = r.ret
           /\ log' = log \o r.log
           /\ marks' = marks \cup r.marks
    /\ pc' = "done"
    /\ op' = "param_check"
    /\ UNCHANGED <<cfme_data, args, live, engine>>
    /\ UNCHANGED othervars

Parametrize ==
    /\ pc = "call"
    /\ LET r == parametrize(args.metafunc, args.argnames, args.argvalues, NoKwargs)
       IN  /\ log' = log \o r.log
           /\ marks' = marks \cup r.marks
           /\ engine' = engine \o r.engine
    /\ ret' = PyNone
    /\ pc' = "done"
    /\ op' = "parametrize"
    /\ UNCHANGED <<cfme_data, args, live>>
    /\ UNCHANGED othervars

FixtureFilter ==
    /\ pc = "call"
    /\ ret' = fixture_filter(args.metafunc, args.argnames, args.argvalues)
    /\ pc' = "done"
    /\ op' = "fixture_filter"
    /\ UNCHANGED <<cfme_data, args, log, live, engine, marks>>
    /\ UNCHANGED othervars

NextParam == ParamCheck \/ Parametrize \/ FixtureFilter

SpecParam == InitParam /\ [][NextParam]_vars

----------------------------------------------------------------------------
(* utils/testgen.py: provider_by_type and its wrappers                     *)

\* utils.providers.cloud_provider_type_map / infra_provider_type_map: the
\* provider types that have a cloud, respectively an infra, CRUD class
cloud_provider_type_map == {"ec2", "openstack"}
infra_provider_type_map == {"rhevm", "virtualcenter"}

\* cfme.cloud.provider.get_from_config(provider): the cloud CRUD object
get_cloud_provider(provider) ==
    [kind |-> "crud", flavor |-> "cloud", key |-> provider]
\* cfme.infrastructure.provider.get_from_config(provider)
get_infra_provider(provider) ==
    [kind |-> "crud", flavor |-> "infra", key |-> provider]
\* utils.providers.provider_factory(provider): the management backend
provider_factory(provider) == [kind |-> "mgmt", key |-> provider]
\* cfme.infrastructure.pxe.get_pxe_server_from_config(pxe_server)
get_pxe_server_from_config(pxe_server) == [kind |-> "pxe", key |-> pxe_server]

\* a constructor call, as recorded in live
Call(fn, key) == [fn |-> fn, key |-> key]

\* a local variable that was never assigned
Unbound == [kind |-> "unbound"]

\* the provider_types argument: None, or a collection of type names
Types(S) == [kind |-> "types", v |-> S]

\* dict.get(field, default)
Get(data, field, default) ==
    IF field \in DOMAIN data THEN data[field] ELSE default

special_args ==
    <<"provider_key", "provider_data", "provider_crud", "provider_mgmt",
      "provider_type">>

\* faulty variant: every special argname is appended, declared or not
RECURSIVE hook_special_args_always(_, _, _)
hook_special_args_always(metafunc, argnames, i) ==
    IF i > Len(special_args) THEN argnames
    ELSE hook_special_args_always(metafunc,
             IF ~InSeq(special_args[i], argnames)
             THEN Append(argnames, special_args[i]) ELSE argnames,
             i + 1)

\* for argname in special_args: if argname in metafunc.fixturenames and
\* argname not in argnames: argnames.append(argname)   (from position i on)
RECURSIVE hook_special_args(_, _, _)
hook_special_args(metafunc, argnames, i) ==
    IF i > Len(special_args) THEN argnames
    ELSE hook_special_args(metafunc,
             IF special_args[i] \in metafunc.fixturenames
                /\ ~InSeq(special_args[i], argnames)
             THEN Append(argnames, special_args[i]) ELSE argnames,
             i + 1)

\* faulty variant: the membership test is inverted
skip_provider_inverted(provider_types, prov_type) ==
    /\ provider_types # PyNone
    /\ prov_type.v \in provider_types.v

\* faulty variant: `if provider_types and ...` lets an empty list through
skip_provider_falsy_passes(provider_types, prov_type) ==
    /\ provider_types # PyNone
    /\ provider_types.v # {}
    /\ prov_type.v \notin provider_types.v

\* provider_types is not None and prov_type not in provider_types
skip_provider(provider_types, prov_type) ==
    /\ provider_types # PyNone
    /\ prov_type.v \notin provider_types.v

\* values = [data.get(field, '') for field in fields]
field_values(data, fields) ==
    [i \in 1..Len(fields) |-> Get(data, fields[i], Str(""))]

field_warning(field, provider) ==
    [level |-> "warning",
     msg |-> "Field \"" \o field \o "\" not defined for provider \""
                 \o provider \o "\", defaulting to None"]

\* for i, (field, value) in enumerate(zip(fields, values)):
\*     if value is None: logger.warn(...)
field_warnings(provider, fields, values) ==
    LET idx == SelectSeq([i \in 1..Len(fields) |-> i],
                         LAMBDA i : values[i] = PyNone)
    IN  [k \in 1..Len(idx) |-> field_warning(fields[idx[k]], provider)]

\* if prov_type in cloud_provider_type_map: crud = get_cloud_provider(provider)
\* elif prov_type in infra_provider_type_map: crud = get_infra_provider(provider)
\* (else crud keeps whatever it held); then mgmt = provider_factory(provider)
construct_live(provider, prov_type, crud) ==
    LET cloud == prov_type.v \in cloud_provider_type_map
        infra == prov_type.v \in infra_provider_type_map
    IN  [crud |-> IF cloud THEN get_cloud_provider(provider)
                  ELSE IF infra THEN get_infra_provider(provider)
                  ELSE crud,
         mgmt |-> provider_factory(provider),
         live |-> (IF cloud THEN <<Call("get_cloud_provider", provider)>>
                   ELSE IF infra THEN <<Call("get_infra_provider", provider)>>
                   ELSE <<>>)
                  \o <<Call("provider_factory", provider)>>]

\* dict(zip(special_args, (provider, data, crud, mgmt, prov_type)))
special_args_map(provider, data, crud, mgmt, prov_type) ==
    [a \in {special_args[i] : i \in 1..Len(special_args)} |->
        CASE a = "provider_key" -> Str(provider)
          [] a = "provider_data" -> Dict(data)
          [] a = "provider_crud" -> crud
          [] a = "provider_mgmt" -> mgmt
          [] a = "provider_type" -> prov_type]

\* for arg in special_args: if arg in argnames: values.append(special_args_map[arg])
append_special_values(values, argnames, map) ==
    LET chosen == SelectSeq(special_args, LAMBDA a : InSeq(a, argnames))
    IN  values \o [k \in 1..Len(chosen) |-> map[chosen[k]]]

\* faulty variant of the loop body: the id is recorded before the type filter
provider_step_id_before_filter(st, item, provider_types, fields, argnames) ==
    LET provider == item.key
        data == item.data
        prov_type == data["type"]
        values == field_values(data, fields)
        built == construct_live(provider, prov_type, st.crud)
    IN  IF skip_provider(provider_types, prov_type)
        THEN [st EXCEPT !.idlist = Append(@, provider)]
        ELSE IF built.crud = Unbound
        THEN [st EXCEPT !.exc = "NameError",
                        !.idlist = Append(@, provider),
                        !.log = @ \o field_warnings(provider, fields, values),
                        !.live = @ \o built.live]
        ELSE [st EXCEPT
                 !.idlist = Append(@, provider),
                 !.log = @ \o field_warnings(provider, fields, values),
                 !.live = @ \o built.live,
                 !.crud = built.crud,
                 !.argvalues = Append(@, append_special_values(values, argnames,
                     special_args_map(provider, data, built.crud, built.mgmt,
                                      prov_type)))]

\* one pass of the loop over cfme_data['management_systems'] (lines 227-259);
\* reading the unassigned local crud at line 255 raises NameError
provider_step(st, item, provider_types, fields, argnames) ==
    LET provider == item.key
        data == item.data
        prov_type == data["type"]
        values == field_values(data, fields)
        built == construct_live(provider, prov_type, st.crud)
    IN  IF skip_provider(provider_types, prov_type)
        THEN st
        ELSE IF built.crud = Unbound
        THEN [st EXCEPT !.exc = "NameError",
                        !.idlist = Append(@, provider),
                        !.log = @ \o field_warnings(provider, fields, values),
                        !.live = @ \o built.live]
        ELSE [st EXCEPT
                 !.idlist = Append(@, provider),
                 !.log = @ \o field_warnings(provider, fields, values),
                 !.live = @ \o built.live,
                 !.crud = built.crud,
                 !.argvalues = Append(@, append_special_values(values, argnames,
                     special_args_map(provider, data, built.crud, built.mgmt,
                                      prov_type)))]

\* the loop from item i on; an exception ends it
RECURSIVE provider_loop(_, _, _, _, _, _)
provider_loop(st, items, i, provider_types, fields, argnames) ==
    IF i > Len(items) \/ st.exc # "none" THEN st
    ELSE Bind(provider_step(st, items[i], provider_types, fields, argnames),
              LAMBDA next :
                  provider_loop(next, items, i + 1, provider_types, fields, argnames))

\* what a generator hands back: the triple it returns (empty when it raised),
\* the exception, and the records logged and objects constructed on the way
GenResult(exc, argnames, argvalues, idlist, l, lv) ==
    [exc |-> exc,
     argnames |-> IF exc = "none" THEN argnames ELSE <<>>,
     argvalues |-> IF exc = "none" THEN argvalues ELSE <<>>,
     idlist |-> IF exc = "none" THEN idlist ELSE <<>>,
     log |-> l, live |-> lv]

provider_by_type(config, metafunc, provider_types, fields) ==
    LET st0 == [exc |-> "none", idlist |-> <<>>, argvalues |-> <<>>,
                log |-> <<>>, live |-> <<>>, crud |-> Unbound]
    IN  Bind(hook_special_args(metafunc, fields, 1), LAMBDA argnames :
            Bind(provider_loop(st0, config.management_systems, 1, provider_types,
                               fields, argnames),
                 LAMBDA st : GenResult(st.exc, argnames, st.argvalues, st.idlist,
                                       st.log, st.live)))

cloud_providers(config, metafunc, fields) ==
    provider_by_type(config, metafunc, Types(cloud_provider_type_map), fields)

infra_providers(config, metafunc, fields) ==
    provider_by_type(config, metafunc, Types(infra_provider_type_map), fields)

----------------------------------------------------------------------------
(* utils/testgen.py: auth_groups and pxe_servers                           *)

\* the navigation destinations a group role can list, in alphabetical order
NavNames == <<"clouds", "dashboard", "infrastructure">>

Rank(s) == CHOOSE i \in 1..Len(NavNames) : NavNames[i] = s

\* sorted(l) for a list of destination names
RECURSIVE sorted(_)
sorted(l) ==
    IF l = <<>> THEN <<>>
    ELSE LET m == CHOOSE i \in 1..Len(l) :
                      \A j \in 1..Len(l) : Rank(l[i]) <= Rank(l[j])
             rest == [k \in 1..(Len(l) - 1) |-> IF k < m THEN l[k] ELSE l[k + 1]]
         IN  <<l[m]>> \o sorted(rest)

auth_groups(config, metafunc, auth_mode) ==
    LET modes == IF config.auth_modes = PyNone THEN {} ELSE config.auth_modes.v
        groups == IF auth_mode \in modes THEN config.group_roles ELSE <<>>
    IN  GenResult("none", <<"group_name", "group_data">>,
            [i \in 1..Len(groups) |->
                <<Str(groups[i].key),
                  List([k \in 1..Len(groups[i].data) |->
                           Str(sorted(groups[i].data)[k])])>>],
            [i \in 1..Len(groups) |-> groups[i].key],
            <<>>, <<>>)

pxe_servers(config, metafunc) ==
    LET data == config.pxe_servers
    IN  GenResult("none", <<"pxe_name", "pxe_server_crud">>,
            [i \in 1..Len(data) |->
                <<data[i].data["name"], get_pxe_server_from_config(data[i].key)>>],
            [i \in 1..Len(data) |-> data[i].key],
            <<>>,
            [i \in 1..Len(data) |-> Call("get_pxe_server_from_config", data[i].key)])

----------------------------------------------------------------------------
(* utils/testgen.py: generate and the hook it builds                       *)

\* gen_func(metafunc, *args, **kwargs) for the generators of this module
call_gen(config, metafunc, gen) ==
    CASE gen.fn = "provider_by_type" ->
             provider_by_type(config, metafunc, gen.provider_types, gen.fields)
      [] gen.fn = "cloud_providers" -> cloud_providers(config, metafunc, gen.fields)
      [] gen.fn = "infra_providers" -> infra_providers(config, metafunc, gen.fields)
      [] gen.fn = "auth_groups" -> auth_groups(config, metafunc, gen.auth_mode)
      [] gen.fn = "pxe_servers" -> pxe_servers(config, metafunc)

\* faulty variant: the ids are filtered like a row
hook_ids_filtered(metafunc, argnames, idlist) ==
    keep_items(keep_index(metafunc, argnames), idlist)

\* ids=idlist: the ids go to the engine as the generator returned them
hook_ids(metafunc, argnames, idlist) == idlist

\* the pytest_generate_tests(metafunc) that generate(gen_func, ...) returns
pytest_generate_tests(config, metafunc, gen, filter_unused, scope, indirect) ==
    Bind(call_gen(config, metafunc, gen), LAMBDA g :
        IF g.exc # "none"
        THEN [exc |-> g.exc, log |-> g.log, live |-> g.live, marks |-> {},
              engine |-> <<>>]
        ELSE Bind(IF filter_unused
                  THEN fixture_filter(metafunc, g.argnames, g.argvalues)
                  ELSE [argnames |-> g.argnames, argvalues |-> g.argvalues],
                  LAMBDA filtered :
             Bind(parametrize(metafunc, filtered.argnames, filtered.argvalues,
                      [ids |-> List(hook_ids(metafunc, g.argnames, g.idlist)),
                       scope |-> scope, indirect |-> indirect]),
                  LAMBDA p :
                      [exc |-> "none", log |-> g.log \o p.log, live |-> g.live,
                       marks |-> p.marks, engine |-> p.engine])))

----------------------------------------------------------------------------
(* Inventories and calls of the generators                                 *)

\* provider types found in the inventory; "x" has no CRUD class
ProvTypes == {"ec2", "rhevm", "x"}

\* the keys of a section, in the two iteration orders drawn for a dict
ProviderKeys == <<"a", "b", "c", "d">>
PxeKeys == <<"pxe1", "pxe2", "pxe3", "pxe4">>
GroupKeys == <<"evmgroup-admin", "evmgroup-operator", "evmgroup-user", "evmgroup-vm">>

KeyOrders(keys, n) ==
    {[i \in 1..n |-> keys[i]], [i \in 1..n |-> keys[n + 1 - i]]}

\* a provider's data: its type, and a name that is set, null or missing
ProviderDatas(key) ==
    {[type |-> Str(t)] : t \in ProvTypes}
    \cup {[type |-> Str(t), name |-> v] :
              t \in ProvTypes, v \in {PyNone, Str("N_" \o key)}}

Sections(keys, Datas(_)) ==
    UNION {UNION {{s \in [1..n -> UNION {{[key |-> ks[i], data |-> d] :
                                           d \in Datas(ks[i])} : i \in 1..n}] :
                      \A i \in 1..n : s[i].key = ks[i]} :
                  ks \in KeyOrders(keys, n)} :
           n \in 0..MaxItems}

PxeDatas(key) == {[name |-> Str("N_" \o key)]}

RoleLists == {<<>>, <<"infrastructure", "clouds">>, <<"dashboard">>}
GroupDatas(key) == RoleLists

AuthModes(S) == [kind |-> "modes", v |-> S]

\* the configurations: one section is varied at a time
Configs ==
    {[EmptyConfig EXCEPT !.management_systems = s] :
         s \in Sections(ProviderKeys, ProviderDatas)}
    \cup {[EmptyConfig EXCEPT !.pxe_servers = s] : s \in Sections(PxeKeys, PxeDatas)}
    \cup {[EmptyConfig EXCEPT !.group_roles = s, !.auth_modes = m] :
              s \in Sections(GroupKeys, GroupDatas),
              m \in {PyNone, AuthModes({"ldap"})}}

GenFixtureNames ==
    {"name"} \cup {special_args[i] : i \in 1..Len(special_args)}

\* what the test declares: nothing, one name, or every name
GenFixtureSets ==
    {S \in SUBSET GenFixtureNames : Cardinality(S) <= 1}
    \cup {GenFixtureNames, {"pxe_name"}, {"group_name"}}

GenMetafuncs ==
    [fixturenames : GenFixtureSets, module : {Str("test_mod")}, cls : {PyNone},
     function : {"test_fn"}]

TypeArgs == {PyNone, Types({}), Types({"ec2"}), Types({"rhevm", "x"})}

FieldArgs ==
    {<<>>, <<"name">>, <<"name", "provider_data">>, <<"provider_data", "name">>}

AuthModeArgs == {"ldap", "aws_iam"}

\* the generators handed to generate()
HookGens ==
    {[fn |-> "provider_by_type", provider_types |-> t, fields |-> <<"name">>] :
         t \in {PyNone, Types({"ec2"})}}
    \cup {[fn |-> f, fields |-> <<"name">>] : f \in {"cloud_providers", "infra_providers"}}
    \cup {[fn |-> "auth_groups", auth_mode |-> "ldap"], [fn |-> "pxe_servers"]}

Init ==
    /\ cfme_data \in Configs
    /\ pc = "call"
    /\ op = ""
    /\ args \in [metafunc : GenMetafuncs]
    /\ ret = PyNone
    /\ log = <<>>
    /\ live = <<>>
    /\ engine = <<>>
    /\ marks = {}
    /\ OthersIdle

\* a generator ran: its triple (or exception) is returned, its effects kept
Generated(name, callargs, g) ==
    /\ pc' = "done"
    /\ op' = name
    /\ args' = callargs
    /\ ret' = [exc |-> g.exc, argnames |-> g.argnames, argvalues |-> g.argvalues,
               idlist |-> g.idlist]
    /\ log' = log \o g.log
    /\ live' = live \o g.live
    /\ UNCHANGED <<cfme_data, engine, marks>>
    /\ UNCHANGED othervars

ProviderByType ==
    /\ pc = "call"
    /\ \E t \in TypeArgs, f \in FieldArgs :
           Generated("provider_by_type",
               [metafunc |-> args.metafunc, provider_types |-> t, fields |-> f],
               provider_by_type(cfme_data, args.metafunc, t, f))

CloudProviders ==
    /\ pc = "call"
    /\ \E f \in FieldArgs :
           Generated("cloud_providers",
               [metafunc |-> args.metafunc,
                provider_types |-> Types(cloud_provider_type_map), fields |-> f],
               cloud_providers(cfme_data, args.metafunc, f))

InfraProviders ==
    /\ pc = "call"
    /\ \E f \in FieldArgs :
           Generated("infra_providers",
               [metafunc |-> args.metafunc,
                provider_types |-> Types(infra_provider_type_map), fields |-> f],
               infra_providers(cfme_data, args.metafunc, f))

AuthGroups ==
    /\ pc = "call"
    /\ \E m \in AuthModeArgs :
           Generated("auth_groups", [metafunc |-> args.metafunc, auth_mode |-> m],
               auth_groups(cfme_data, args.metafunc, m))

PxeServers ==
    /\ pc = "call"
    /\ Generated("pxe_servers", [metafunc |-> args.metafunc],
           pxe_servers(cfme_data, args.metafunc))

\* the hook built by generate(gen_func, ..., filter_unused=...) collects a test
GenerateHook ==
    /\ pc = "call"
    /\ \E gen \in HookGens, filter_unused \in BOOLEAN :
           LET h == pytest_generate_tests(cfme_data, args.metafunc, gen,
                        filter_unused, "function", FALSE)
           IN  /\ args' = [metafunc |-> args.metafunc, gen |-> gen,
                           filter_unused |-> filter_unused]
               /\ ret' = [exc |-> h.exc]
               /\ log' = log \o h.log
               /\ live' = live \o h.live
               /\ marks' = marks \cup h.marks
               /\ engine' = engine \o h.engine
    /\ pc' = "done"
    /\ op' = "pytest_generate_tests"
    /\ UNCHANGED cfme_data
    /\ UNCHANGED othervars

Next ==
    \/ ProviderByType
    \/ CloudProviders
    \/ InfraProviders
    \/ AuthGroups
    \/ PxeServers
    \/ GenerateHook

Spec == Init /\ [][Next]_vars

----------------------------------------------------------------------------
(* Claims about param_check, parametrize and fixture_filter (SpecParam)    *)

Ran(f) == pc = "done" /\ op = f

\* a row with a value exists
HasNonEmptyRow(av) == \E i \in 1..Len(av) : Len(av[i]) > 0

\* module.class.function with the absent parts left out, case by case
QualifiedName(mf) ==
    IF mf.module = PyNone /\ mf.cls = PyNone THEN mf.function
    ELSE IF mf.module = PyNone THEN mf.cls.v \o "." \o mf.function
    ELSE IF mf.cls = PyNone THEN mf.module.v \o "." \o mf.function
    ELSE mf.module.v \o "." \o mf.cls.v \o "." \o mf.function

UncollectMark(mf) == [mark |-> "uncollect", function |-> mf.function]

\* C1: param_check is a total three-way decision: False exactly when argnames
\* is empty, True exactly when argnames is non-empty and some row is
\* non-empty, None otherwise; None comes with the uncollect mark on the test
\* function and one warning naming the test as module.class.function (absent
\* parts omitted), the other two outcomes with no mark and no log record.
C1_ParamCheckThreeWay ==
    Ran("param_check") =>
        LET an == args.argnames
            av == args.argvalues
            mf == args.metafunc
        IN  /\ ret \in {PyFalse, PyTrue, PyNone}
            /\ (ret = PyFalse) <=> (an = <<>>)
            /\ (ret = PyTrue) <=> (an # <<>> /\ HasNonEmptyRow(av))
            /\ (ret = PyNone) <=> (an # <<>> /\ ~HasNonEmptyRow(av))
            /\ (ret = PyNone) =>
                   /\ marks = {UncollectMark(mf)}
                   /\ Len(log) = 1
                   /\ log[1].level = "warning"
                   /\ log[1].msg = "Parametrization for " \o QualifiedName(mf)
                          \o " yielded no values, marked for uncollection"
            /\ (ret # PyNone) => (marks = {} /\ log = <<>>)

\* param_check uncollected a class-less test whose rows are all empty
C1_Witness ==
    /\ Ran("param_check")
    /\ ret = PyNone
    /\ args.argnames = <<"x", "y">>
    /\ args.argvalues = <<<<>>, <<>>>>
    /\ args.metafunc.module = Str("test_mod")
    /\ args.metafunc.cls = PyNone
    /\ log[1].msg = "Parametrization for test_mod.test_fn yielded no values, marked for uncollection"

\* C2: parametrize calls the engine at most once, with the matrix it was
\* given, and exactly when param_check decides "parametrize"; in the skip and
\* in the uncollect case the engine is not called.
C2_EngineOnlyWhenParametrize ==
    Ran("parametrize") =>
        LET an == args.argnames
            av == args.argvalues
        IN  /\ Len(engine) <= 1
            /\ (Len(engine) = 1) <=> (an # <<>> /\ HasNonEmptyRow(av))
            /\ (Len(engine) = 1) =>
                   (engine[1].argnames = an /\ engine[1].argvalues = av)
            /\ (an = <<>> \/ ~HasNonEmptyRow(av)) => engine = <<>>
            /\ (an # <<>> /\ ~HasNonEmptyRow(av)) =>
                   marks = {UncollectMark(args.metafunc)}

\* parametrize met an empty matrix: the test is uncollected, the engine idle
C2_Witness ==
    /\ Ran("parametrize")
    /\ args.argnames = <<"x">>
    /\ args.argvalues = <<>>
    /\ engine = <<>>
    /\ marks # {}

\* the values of row at the positions whose argname is declared, in order
Projected(an, declared, row) ==
    LET pos == {j \in 1..Len(row) : j <= Len(an) /\ an[j] \in declared}
        nth(k) == CHOOSE j \in pos : Cardinality({m \in pos : m < j}) = k - 1
    IN  [k \in 1..Cardinality(pos) |-> row[nth(k)]]

\* C3: fixture_filter returns the declared argnames in their original
\* order and, for each row, the values at those positions in their original
\* order; the rows keep their number and order.
C3_FilterProjects ==
    Ran("fixture_filter") =>
        LET an == args.argnames
            av == args.argvalues
            declared == args.metafunc.fixturenames
        IN  /\ ret.argnames = SelectSeq(an, LAMBDA n : n \in declared)
            /\ Len(ret.argvalues) = Len(av)
            /\ \A i \in 1..Len(av) :
                   ret.argvalues[i] = Projected(an, declared, av[i])

\* the spec's example: x, y, z filtered by {x, z} over two full rows
C3_Witness ==
    /\ Ran("fixture_filter")
    /\ args.argnames = <<"x", "y", "z">>
    /\ args.metafunc.fixturenames = {"x", "z"}
    /\ args.argvalues = Matrix(<<3, 3>>)
    /\ ret.argnames = <<"x", "z">>
    /\ ret.argvalues = <<<<PyInt(11), PyInt(13)>>, <<PyInt(21), PyInt(23)>>>>

----------------------------------------------------------------------------
(* Claims about provider_by_type and the other generators (Spec)           *)

ProviderOps == {"provider_by_type", "cloud_providers", "infra_providers"}

\* provider_by_type ran, directly or through a wrapper
RanProvider == pc = "done" /\ op \in ProviderOps

\* ... and returned its triple
Returned == RanProvider /\ ret.exc = "none"

Inventory == cfme_data.management_systems

HasKey(section, key) == \E i \in 1..Len(section) : section[i].key = key

ItemOf(section, key) ==
    section[CHOOSE i \in 1..Len(section) : section[i].key = key]

KeysOf(section) == [i \in 1..Len(section) |-> section[i].key]

IsSpecial(name) == \E i \in 1..Len(special_args) : special_args[i] = name

KnownType(item) ==
    item.data["type"].v \in cloud_provider_type_map \cup infra_provider_type_map

\* v is the value the special argname s stands for, for this item
IsSpecialValue(s, v, item) ==
    CASE s = "provider_key" -> v = Str(item.key)
      [] s = "provider_data" -> v = Dict(item.data)
      [] s = "provider_crud" -> v.kind = "crud"
      [] s = "provider_mgmt" -> v = [kind |-> "mgmt", key |-> item.key]
      [] s = "provider_type" -> v = item.data["type"]

\* v is the value the requested plain field stands for, for this item
IsPlainValue(field, v, item) ==
    IF field \in DOMAIN item.data THEN v = item.data[field] ELSE v = Str("")

\* the plain (non-special) requested fields sit at their positions in row
PlainFieldsInPlace(fields, row, item) ==
    /\ Len(row) >= Len(fields)
    /\ \A j \in 1..Len(fields) :
           ~IsSpecial(fields[j]) => IsPlainValue(fields[j], row[j], item)

\* C4: every row returned by provider_by_type has as many values as argnames
\* has names, each value at the position of its argname, and idlist is as long
\* as argvalues -- also when a special field is requested as a field.
C4_RowsAlignedWithArgnames ==
    Returned =>
        /\ Len(ret.idlist) = Len(ret.argvalues)
        /\ \A r \in 1..Len(ret.argvalues) :
               /\ Len(ret.argvalues[r]) = Len(ret.argnames)
               /\ HasKey(Inventory, ret.idlist[r])
               /\ \A j \in 1..Len(ret.argnames) :
                      j <= Len(ret.argvalues[r]) =>
                          IF IsSpecial(ret.argnames[j])
                          THEN IsSpecialValue(ret.argnames[j], ret.argvalues[r][j],
                                              ItemOf(Inventory, ret.idlist[r]))
                          ELSE IsPlainValue(ret.argnames[j], ret.argvalues[r][j],
                                            ItemOf(Inventory, ret.idlist[r]))

\* the allowed types are a non-empty collection
NonEmptyTypes == args.provider_types # PyNone /\ args.provider_types.v # {}

AllowedKeys(S) ==
    KeysOf(SelectSeq(Inventory, LAMBDA item : item.data["type"].v \in S))

\* one row per key, each holding the plain fields of that key's item
OneRowPerKey(keys) ==
    /\ ret.idlist = keys
    /\ Len(ret.argvalues) = Len(keys)
    /\ \A r \in 1..Len(keys) :
           PlainFieldsInPlace(args.fields, ret.argvalues[r],
                              ItemOf(Inventory, keys[r]))

\* C5 as stated: with a non-empty set of allowed types provider_by_type
\* produces one row per item whose type is allowed and none for the others,
\* each row holding the requested plain fields in the requested order, rows in
\* inventory iteration order.
C5_OneRowPerAllowedItem ==
    (RanProvider /\ NonEmptyTypes) =>
        /\ ret.exc = "none"
        /\ OneRowPerKey(AllowedKeys(args.provider_types.v))

\* the first item that passes the filter has a type without a CRUD class
FirstRetainedUnknown(keys) ==
    keys # <<>> /\ ~KnownType(ItemOf(Inventory, keys[1]))

\* C5, amended: with a non-empty set of allowed types provider_by_type raises
\* NameError when the first item of an allowed type has a type in neither the
\* cloud nor the infra type map; otherwise it produces one row per item whose
\* type is allowed and none for the others, each row holding the requested
\* plain fields in the requested order, rows in inventory iteration order.
C5_OneRowPerAllowedItemOrNameError ==
    (RanProvider /\ NonEmptyTypes) =>
        LET keys == AllowedKeys(args.provider_types.v)
        IN  IF FirstRetainedUnknown(keys)
            THEN ret.exc = "NameError"
            ELSE ret.exc = "none" /\ OneRowPerKey(keys)

\* the spec's example: a is of an allowed type, b is not; only a gets a row
C5_Witness ==
    /\ Ran("provider_by_type")
    /\ args.provider_types = Types({"ec2"})
    /\ args.fields = <<"name">>
    /\ args.metafunc.fixturenames = {}
    /\ KeysOf(Inventory) = <<"a", "b">>
    /\ Inventory[1].data = [type |-> Str("ec2"), name |-> Str("N_a")]
    /\ Inventory[2].data = [type |-> Str("rhevm"), name |-> Str("N_b")]
    /\ ret.argnames = <<"name">>
    /\ ret.argvalues = <<<<Str("N_a")>>>>
    /\ ret.idlist = <<"a">>

\* the allowed types are None or an empty collection
EmptyOrUnsetTypes == args.provider_types = PyNone \/ args.provider_types.v = {}

\* C6 as stated: with allowed types empty or None every item is retained.
C6_EmptyOrUnsetRetainsAll ==
    (RanProvider /\ EmptyOrUnsetTypes) =>
        /\ ret.exc = "none"
        /\ ret.idlist = KeysOf(Inventory)
        /\ Len(ret.argvalues) = Len(Inventory)

\* C6, amended: with allowed types None no item is skipped: the call raises
\* NameError when the first item has a type in neither type map, and otherwise
\* returns one row per inventory item; with an empty collection of allowed
\* types every item is skipped and the result has no rows.
C6_UnsetRetainsAllEmptyRetainsNone ==
    /\ (RanProvider /\ args.provider_types = PyNone) =>
           IF FirstRetainedUnknown(KeysOf(Inventory))
           THEN ret.exc = "NameError"
           ELSE ret.exc = "none" /\ OneRowPerKey(KeysOf(Inventory))
    /\ (RanProvider /\ args.provider_types # PyNone /\ args.provider_types.v = {}) =>
           /\ ret.exc = "none"
           /\ ret.idlist = <<>>
           /\ ret.argvalues = <<>>
           /\ live = <<>>

\* provider_types=None over two items of different types: both get a row
C6_Witness ==
    /\ Ran("provider_by_type")
    /\ args.provider_types = PyNone
    /\ args.fields = <<"name">>
    /\ Len(Inventory) = 2
    /\ Inventory[1].data["type"] = Str("rhevm")
    /\ Inventory[2].data["type"] = Str("ec2")
    /\ ret.exc = "none"
    /\ Len(ret.argvalues) = 2
    /\ ret.idlist = KeysOf(Inventory)

\* the record the warning about an undefined field would be
UndefinedFieldWarning(field, provider) ==
    [level |-> "warning",
     msg |-> "Field \"" \o field \o "\" not defined for provider \""
                 \o provider \o "\", defaulting to None"]

\* C7: a requested plain field that an item does not define gives that item's
\* row an empty-string placeholder at the field's position and a logged
\* warning naming the field and the provider; the call does not raise for it.
C7_MissingFieldPlaceholderAndWarning ==
    Returned =>
        \A r \in 1..Len(ret.argvalues) : \A j \in 1..Len(args.fields) :
            (/\ ~IsSpecial(args.fields[j])
             /\ args.fields[j] \notin DOMAIN ItemOf(Inventory, ret.idlist[r]).data)
            => /\ ret.argvalues[r][j] = Str("")
               /\ InSeq(UndefinedFieldWarning(args.fields[j], ret.idlist[r]), log)

\* the special argnames the call ends up with, in their fixed order
SpecialsIn(an) == SelectSeq(special_args, LAMBDA s : InSeq(s, an))

\* C8: a special field is in the returned argnames, and its value in the rows,
\* only if the test declares it or the caller requested it as a field; the
\* declared ones follow the requested fields in the fixed order of
\* special_args, in argnames and (as values) in every row.
C8_SpecialsOnlyWhenDeclared ==
    Returned =>
        LET fields == args.fields
            declared == args.metafunc.fixturenames
            an == ret.argnames
            appended == SelectSeq(special_args,
                            LAMBDA s : s \in declared /\ ~InSeq(s, fields))
        IN  /\ \A i \in 1..Len(special_args) :
                   InSeq(special_args[i], an) =>
                       (special_args[i] \in declared \/ InSeq(special_args[i], fields))
            /\ an = fields \o appended
            /\ \A r \in 1..Len(ret.argvalues) :
                   LET row == ret.argvalues[r]
                       item == ItemOf(Inventory, ret.idlist[r])
                       sp == SpecialsIn(an)
                   IN  /\ Len(row) = Len(fields) + Len(sp)
                       /\ \A k \in 1..Len(sp) :
                              IsSpecialValue(sp[k], row[Len(fields) + k], item)

\* every special field is declared and a row was built: all five follow name
C8_Witness ==
    /\ Ran("provider_by_type")
    /\ ret.exc = "none"
    /\ args.fields = <<"name">>
    /\ args.metafunc.fixturenames = GenFixtureNames
    /\ ret.argnames = <<"name">> \o special_args
    /\ Len(ret.argvalues) = 2
    /\ Len(ret.argvalues[1]) = 6
    /\ ret.argvalues[1][2] = Str(ret.idlist[1])
    /\ ret.argvalues[1][6] = Inventory[1].data["type"]

\* C9: when the test declares neither provider_crud nor provider_mgmt,
\* provider_by_type constructs no live object: no CRUD constructor and no
\* management-backend factory is called.
C9_NoLiveObjectsUnlessDeclared ==
    (/\ RanProvider
     /\ "provider_crud" \notin args.metafunc.fixturenames
     /\ "provider_mgmt" \notin args.metafunc.fixturenames)
    => live = <<>>

\* s and t hold the same elements, each as often
SameElements(s, t) ==
    /\ Len(s) = Len(t)
    /\ \A x \in {s[i] : i \in 1..Len(s)} \cup {t[i] : i \in 1..Len(t)} :
           Cardinality({i \in 1..Len(s) : s[i] = x})
               = Cardinality({i \in 1..Len(t) : t[i] = x})

\* keys is a subsequence of the section's keys, in the section's order
InSectionOrder(keys, section) ==
    \E kept \in SUBSET (1..Len(section)) :
        keys = KeysOf(SelectSeq([i \in 1..Len(section) |->
                                    [key |-> section[i].key, pos |-> i]],
                                LAMBDA e : e.pos \in kept))

\* the section of cfme_data a generator reads
SectionOf(fn) ==
    CASE fn \in ProviderOps -> cfme_data.management_systems
      [] fn = "auth_groups" -> cfme_data.group_roles
      [] fn = "pxe_servers" -> cfme_data.pxe_servers

\* the value in the column argname identifies the item it was built from
ColumnOfItem(argname, v, item) ==
    CASE argname = "name" -> IsPlainValue("name", v, item)
      [] argname = "provider_key" -> v = Str(item.key)
      [] argname = "provider_type" -> v = item.data["type"]
      [] argname = "pxe_name" -> v = item.data["name"]
      [] argname = "pxe_server_crud" -> v = [kind |-> "pxe", key |-> item.key]
      [] argname = "group_name" -> v = Str(item.key)
      [] argname = "group_data" ->
             v.kind = "list"
             /\ SameElements([k \in 1..Len(v.v) |-> v.v[k].v], item.data)
      [] OTHER -> TRUE

\* C10: in every matrix returned by provider_by_type (and its wrappers),
\* pxe_servers and auth_groups, idlist[i] is the inventory key of the item
\* argvalues[i] was built from; and the ids the hook built by generate() hands
\* to the engine are as many as the rows handed with them and in the same
\* order, with and without fixture_filter.
C10_IdsAlignedWithRows ==
    /\ Returned =>
           /\ Len(ret.idlist) = Len(ret.argvalues)
           /\ InSectionOrder(ret.idlist, Inventory)
           /\ \A r \in 1..Len(ret.idlist) :
                  LET item == ItemOf(Inventory, ret.idlist[r])
                      row == ret.argvalues[r]
                      k == Len(args.fields) + 1
                  IN  /\ PlainFieldsInPlace(args.fields, row, item)
                      /\ (k <= Len(ret.argnames) /\ ret.argnames[k] = "provider_key")
                             => row[k] = Str(ret.idlist[r])
    /\ (pc = "done" /\ op \in {"pxe_servers", "auth_groups"}) =>
           /\ Len(ret.idlist) = Len(ret.argvalues)
           /\ InSectionOrder(ret.idlist, SectionOf(op))
           /\ \A r \in 1..Len(ret.idlist) : \A c \in 1..Len(ret.argnames) :
                  /\ Len(ret.argvalues[r]) = Len(ret.argnames)
                  /\ ColumnOfItem(ret.argnames[c], ret.argvalues[r][c],
                                  ItemOf(SectionOf(op), ret.idlist[r]))
    /\ (Ran("pytest_generate_tests") /\ engine # <<>>) =>
           LET call == engine[1]
               ids == call.kwargs.ids.v
               section == SectionOf(args.gen.fn)
           IN  /\ Len(ids) = Len(call.argvalues)
               /\ InSectionOrder(ids, section)
               /\ \A r \in 1..Len(ids) : \A c \in 1..Len(call.argnames) :
                      /\ Len(call.argvalues[r]) = Len(call.argnames)
                      /\ ColumnOfItem(call.argnames[c], call.argvalues[r][c],
                                      ItemOf(section, ids[r]))

\* the hook filtered a two-provider matrix down to the name column: the rows
\* and the ids reach the engine in iteration order, b before a
C10_Witness ==
    /\ Ran("pytest_generate_tests")
    /\ args.gen.fn = "provider_by_type"
    /\ args.gen.provider_types = Types({"ec2"})
    /\ args.filter_unused
    /\ args.metafunc.fixturenames = {"name"}
    /\ Len(Inventory) = 2
    /\ Len(engine) = 1
    /\ engine[1].argnames = <<"name">>
    /\ engine[1].argvalues = <<<<Str("N_b")>>, <<Str("N_a")>>>>
    /\ engine[1].kwargs.ids = List(<<"b", "a">>)

----------------------------------------------------------------------------
(* Claims about the hook built by generate (Spec)                          *)

\* the argnames a generator returns for a test that declares `declared`
GenArgnames(gen, declared) ==
    CASE gen.fn \in ProviderOps ->
             gen.fields \o SelectSeq(special_args,
                               LAMBDA s : s \in declared /\ ~InSeq(s, gen.fields))
      [] gen.fn = "auth_groups" -> <<"group_name", "group_data">>
      [] gen.fn = "pxe_servers" -> <<"pxe_name", "pxe_server_crud">>

\* the keys of the items a generator builds a row for, in iteration order
GenRowKeys(gen) ==
    CASE gen.fn = "provider_by_type" ->
             IF gen.provider_types = PyNone THEN KeysOf(Inventory)
             ELSE AllowedKeys(gen.provider_types.v)
      [] gen.fn = "cloud_providers" -> AllowedKeys(cloud_provider_type_map)
      [] gen.fn = "infra_providers" -> AllowedKeys(infra_provider_type_map)
      [] gen.fn = "auth_groups" ->
             IF cfme_data.auth_modes # PyNone /\ gen.auth_mode \in cfme_data.auth_modes.v
             THEN KeysOf(cfme_data.group_roles) ELSE <<>>
      [] gen.fn = "pxe_servers" -> KeysOf(cfme_data.pxe_servers)

\* the test is parametrized with exactly the columns kept: one engine call
\* whose argnames are the declared ones in the generator's order and whose
\* rows, one per item, hold exactly those columns
ParametrizedWith(kept, keys, section) ==
    /\ marks = {}
    /\ Len(engine) = 1
    /\ engine[1].argnames = kept
    /\ engine[1].kwargs.ids = List(keys)
    /\ Len(engine[1].argvalues) = Len(keys)
    /\ \A r \in 1..Len(keys) :
           /\ Len(engine[1].argvalues[r]) = Len(kept)
           /\ \A c \in 1..Len(kept) :
                  ColumnOfItem(kept[c], engine[1].argvalues[r][c],
                               ItemOf(section, keys[r]))

\* C11 as stated: with filter_unused enabled in the hook built by generate(),
\* a test that declares none of the generator's argnames is neither
\* parametrized nor marked for uncollection, whatever the inventory contains;
\* a test that declares a proper subset of the argnames is parametrized with
\* exactly that subset of columns.
C11_FilterUnusedSubset ==
    (Ran("pytest_generate_tests") /\ args.filter_unused) =>
        LET declared == args.metafunc.fixturenames
            an == GenArgnames(args.gen, declared)
            kept == SelectSeq(an, LAMBDA n : n \in declared)
        IN  /\ kept = <<>> => (engine = <<>> /\ marks = {})
            /\ (kept # <<>> /\ kept # an) =>
                   ParametrizedWith(kept, GenRowKeys(args.gen),
                                    SectionOf(args.gen.fn))

\* C11 amended: a test that declares none of the generator's argnames is
\* neither parametrized nor marked for uncollection, whatever the inventory
\* contains; a test that declares a proper subset of the argnames is
\* parametrized with exactly that subset of columns when the generator
\* returns at least one row, is marked for uncollection and not parametrized
\* when the generator returns no row, and is neither when the generator
\* raises.
C11_FilterUnusedSubsetOfRows ==
    (Ran("pytest_generate_tests") /\ args.filter_unused) =>
        LET declared == args.metafunc.fixturenames
            an == GenArgnames(args.gen, declared)
            kept == SelectSeq(an, LAMBDA n : n \in declared)
            keys == GenRowKeys(args.gen)
        IN  /\ kept = <<>> => (engine = <<>> /\ marks = {})
            /\ (kept # <<>> /\ kept # an) =>
                   IF ret.exc # "none" THEN engine = <<>> /\ marks = {}
                   ELSE IF keys = <<>>
                   THEN engine = <<>> /\ marks = {UncollectMark(args.metafunc)}
                   ELSE ParametrizedWith(kept, keys, SectionOf(args.gen.fn))

\* a test declaring only provider_key, of the generated name and
\* provider_key, ran against an inventory without providers: the matrix has
\* no row and the test is uncollected instead of parametrized
C11_Witness ==
    /\ Ran("pytest_generate_tests")
    /\ args.filter_unused
    /\ args.gen.fn = "provider_by_type"
    /\ args.gen.provider_types = PyNone
    /\ args.gen.fields = <<"name">>
    /\ args.metafunc.fixturenames = {"provider_key"}
    /\ KeysOf(Inventory) = <<>>
    /\ ret.exc = "none"
    /\ engine = <<>>
    /\ marks = {UncollectMark(args.metafunc)}

----------------------------------------------------------------------------
(* utils/_conf.py: RecursiveUpdateDict, load_yaml, Config                  *)

\* deepest nesting of mappings in the yaml contents drawn
MaxDepth == 2

\* a RecursiveUpdateDict: its items, in iteration order
RDict(items) == [kind |-> "rdict", v |-> items]

Item(key, val) == [key |-> key, val |-> val]

\* the position of key among the items of d, 0 when d has no such key
rd_index(d, key) ==
    IF \E i \in 1..Len(d.v) : d.v[i].key = key
    THEN CHOOSE i \in 1..Len(d.v) : d.v[i].key = key
    ELSE 0

\* key in self
rd_has(d, key) == rd_index(d, key) # 0

\* self[key]
rd_get(d, key) == d.v[rd_index(d, key)].val

\* self[key] = val: the value of an existing key is replaced where it stands,
\* a new key is added
rd_set(d, key, val) ==
    IF rd_has(d, key)
    THEN RDict([d.v EXCEPT ![rd_index(d, key)] = Item(key, val)])
    ELSE RDict(Append(d.v, Item(key, val)))

\* isinstance(value, type(self))
isinstance_rdict(value) == value.kind = "rdict"

\* faulty variant: dict.update, every key of new_data is assigned whole
RECURSIVE update_shallow(_, _, _)
update_shallow(self, new_data, i) ==
    IF i > Len(new_data.v) THEN [exc |-> "none", v |-> self]
    ELSE update_shallow(rd_set(self, new_data.v[i].key, new_data.v[i].val),
                        new_data, i + 1)

\* faulty variant: an existing key is never assigned a non-mapping value
RECURSIVE update_keeps_base(_, _, _)
update_keeps_base(self, new_data, i) ==
    IF i > Len(new_data.v) THEN [exc |-> "none", v |-> self]
    ELSE LET key == new_data.v[i].key
             value == new_data.v[i].val
         IN  IF isinstance_rdict(value) /\ rd_has(self, key)
             THEN IF ~isinstance_rdict(rd_get(self, key))
                  THEN [exc |-> "TypeError", v |-> self]
                  ELSE Bind(update_keeps_base(rd_get(self, key), value, 1),
                            LAMBDA sub :
                                IF sub.exc # "none"
                                THEN [exc |-> sub.exc, v |-> rd_set(self, key, sub.v)]
                                ELSE update_keeps_base(rd_set(self, key, sub.v),
                                                       new_data, i + 1))
             ELSE IF rd_has(self, key) THEN update_keeps_base(self, new_data, i + 1)
             ELSE update_keeps_base(rd_set(self, key, value), new_data, i + 1)

\* RecursiveUpdateDict.update(self, new_data), from item i of new_data on:
\* the mapping self has become, and the exception that ended the merge, if
\* any.  type(self).update(self[key], value) is an unbound-method call: it
\* raises TypeError when self[key] is not a RecursiveUpdateDict.
RECURSIVE update(_, _, _)
update(self, new_data, i) ==
    IF i > Len(new_data.v) THEN [exc |-> "none", v |-> self]
    ELSE LET key == new_data.v[i].key
             value == new_data.v[i].val
         IN  IF isinstance_rdict(value) /\ rd_has(self, key)
             THEN IF ~isinstance_rdict(rd_get(self, key))
                  THEN [exc |-> "TypeError", v |-> self]
                  ELSE Bind(update(rd_get(self, key), value, 1), LAMBDA sub :
                           IF sub.exc # "none"
                           THEN [exc |-> sub.exc, v |-> rd_set(self, key, sub.v)]
                           ELSE update(rd_set(self, key, sub.v), new_data, i + 1))
             ELSE update(rd_set(self, key, value), new_data, i + 1)

\* YamlConfigLoader.construct_yaml_map: every yaml mapping node becomes a
\* RecursiveUpdateDict that is filled by update() from the constructed mapping
construct_yaml_map(value) == update(RDict(<<>>), value, 1).v

\* faulty variant: a missing file loads as an empty mapping
load_yaml_missing_is_empty(fs, filename) ==
    IF filename \in DOMAIN fs
    THEN [exc |-> "none", v |-> construct_yaml_map(fs[filename])]
    ELSE [exc |-> "none", v |-> RDict(<<>>)]

\* load_yaml(filename): the parsed <filename>.yaml of the conf directory, or
\* ConfigNotFoundException when there is no such file
load_yaml(fs, filename) ==
    IF filename \in DOMAIN fs
    THEN [exc |-> "none", v |-> construct_yaml_map(fs[filename])]
    ELSE [exc |-> "ConfigNotFoundException", v |-> PyNone]

\* '%s.local' % key
local_yaml(key) == key \o ".local"

\* the cache with key set to value (dict.__setitem__ of Config)
cache_set(cache, key, value) ==
    [k \in DOMAIN cache \cup {key} |-> IF k = key THEN value ELSE cache[k]]

\* Config.__getitem__(key): a cached config is returned as it is; otherwise
\* the base yaml is loaded, the local yaml (when it exists) is merged onto it,
\* and the result is cached.  Only ConfigNotFoundException of the local yaml is
\* caught.
\* reads lists the files load_yaml was called for, in order
config_getitem(cache, fs, key) ==
    IF key \in DOMAIN cache
    THEN [exc |-> "none", v |-> cache[key], conf |-> cache, reads |-> <<>>]
    ELSE Bind(load_yaml(fs, key), LAMBDA yaml_dict :
        IF yaml_dict.exc # "none"
        THEN [exc |-> yaml_dict.exc, v |-> PyNone, conf |-> cache,
              reads |-> <<key>>]
        ELSE Bind(load_yaml(fs, local_yaml(key)), LAMBDA local_yaml_dict :
            IF local_yaml_dict.exc # "none"
            THEN [exc |-> "none", v |-> yaml_dict.v,
                  conf |-> cache_set(cache, key, yaml_dict.v),
                  reads |-> <<key, local_yaml(key)>>]
            ELSE Bind(update(yaml_dict.v, local_yaml_dict.v, 1), LAMBDA merged :
                IF merged.exc # "none"
                THEN [exc |-> merged.exc, v |-> PyNone, conf |-> cache,
                      reads |-> <<key, local_yaml(key)>>]
                ELSE [exc |-> "none", v |-> merged.v,
                      conf |-> cache_set(cache, key, merged.v),
                      reads |-> <<key, local_yaml(key)>>])))

\* the names that the normal attribute lookup finds on a Config: the methods
\* of dict and the attributes of the class
ObjectAttributes == {"keys", "update", "NotFoundException"}

\* faulty variant: the dict interface is asked although the name is cached
config_getattribute_reloads(cache, fs, attr) ==
    IF attr \in ObjectAttributes
    THEN [exc |-> "none", v |-> [kind |-> "attribute", name |-> attr],
          conf |-> cache, reads |-> <<>>]
    ELSE config_getitem(<<>>, fs, attr)

\* Config.__getattribute__(attr): the normal lookup, and self[attr] when that
\* raises AttributeError
config_getattribute(cache, fs, attr) ==
    IF attr \in ObjectAttributes
    THEN [exc |-> "none", v |-> [kind |-> "attribute", name |-> attr],
          conf |-> cache, reads |-> <<>>]
    ELSE config_getitem(cache, fs, attr)

----------------------------------------------------------------------------
(* yaml contents, conf directories and the calls made on them              *)

\* leaf values of the base yaml and of the local yaml
BaseLeaves == {PyInt(1), Str("qwer"), List(<<PyInt(1), PyInt(2)>>)}
LocalLeaves == {PyInt(7), Str("tzui"), List(<<PyInt(9)>>)}

\* the key that holds the nested value of a mapping d levels above the leaves
NestKey(d) == IF d = 1 THEN "name" ELSE "vm"

\* the keys beside the nested one: none, or a and c in the base yaml
BaseSiblings == {<<>>, <<Item("a", PyInt(1)), Item("c", PyInt(3))>>}
\* ... none, or a in the local yaml
LocalSiblings == {<<>>, <<Item("a", PyInt(7))>>}

\* the mappings of depth at most d: siblings, then the nested key
RECURSIVE BaseMappings(_)
BaseMappings(d) ==
    LET nested == BaseLeaves \cup (IF d > 1 THEN BaseMappings(d - 1) ELSE {})
    IN  {RDict(sib) : sib \in BaseSiblings}
        \cup {RDict(sib \o <<Item(NestKey(d), x)>>) :
                  sib \in BaseSiblings, x \in nested}

\* ... in both iteration orders: the nested key last, or first
RECURSIVE LocalMappings(_)
LocalMappings(d) ==
    LET nested == LocalLeaves \cup (IF d > 1 THEN LocalMappings(d - 1) ELSE {})
    IN  {RDict(sib) : sib \in LocalSiblings}
        \cup {RDict(sib \o <<Item(NestKey(d), x)>>) :
                  sib \in LocalSiblings, x \in nested}
        \cup {RDict(<<Item(NestKey(d), x)>> \o sib) :
                  sib \in LocalSiblings, x \in nested}

\* the config names accessed
ConfigKeys == {"cfme_data", "credentials", "keys"}

\* the conf directories: cfme_data.yaml and cfme_data.local.yaml, each present
\* or not
ConfDirs(base, overlay) ==
    LET all == [n \in {"cfme_data", "cfme_data.local", "keys"} |->
                   IF n = "cfme_data.local" THEN overlay ELSE base]
    IN  {[n \in S |-> all[n]] :
            S \in SUBSET {"cfme_data", "cfme_data.local", "keys"}}

InitConf ==
    /\ cfme_data = EmptyConfig
    /\ pc = "call"
    /\ op = ""
    /\ args \in [base : BaseMappings(MaxDepth), overlay : LocalMappings(MaxDepth)]
    /\ files \in ConfDirs(args.base, args.overlay)
    /\ conf = <<>>
    /\ ret = PyNone
    /\ log = <<>>
    /\ live = <<>>
    /\ engine = <<>>
    /\ marks = {}
    /\ ui = <<>>
    /\ entity = <<>>
    /\ nav_tree = {}
    /\ branches = {}
    /\ table_cache = <<>>
    /\ dbs = <<>>
    /\ policy_rows = <<>>
    /\ location = ""
    /\ generators = <<>>

\* base.update(overlay) on a loaded mapping
Update ==
    /\ pc = "call"
    /\ ret' = update(args.base, args.overlay, 1)
    /\ pc' = "done"
    /\ op' = "update"
    /\ UNCHANGED <<cfme_data, args, log, live, engine, marks, files, conf, ui,
                   entity, nav_tree, branches, table_cache, dbs,
                   policy_rows, location, generators>>

\* conf[key], the first access of the session and the one after it
ConfigGetItem ==
    /\ pc \in {"call", "accessed"}
    /\ \E key \in ConfigKeys :
           LET r == config_getitem(conf, files, key)
           IN  /\ args' = [base |-> args.base, overlay |-> args.overlay,
                           key |-> key, cached |-> conf]
               /\ ret' = [exc |-> r.exc, v |-> r.v, reads |-> r.reads]
               /\ conf' = r.conf
    /\ pc' = IF pc = "call" THEN "accessed" ELSE "done"
    /\ op' = "getitem"
    /\ UNCHANGED <<cfme_data, log, live, engine, marks, files, ui, entity,
                   nav_tree, branches, table_cache, dbs,
                   policy_rows, location, generators>>

\* conf.<attr>, the first access of the session and the one after it
ConfigGetAttribute ==
    /\ pc \in {"call", "accessed"}
    /\ \E attr \in ConfigKeys :
           LET r == config_getattribute(conf, files, attr)
           IN  /\ args' = [base |-> args.base, overlay |-> args.overlay,
                           key |-> attr, cached |-> conf]
               /\ ret' = [exc |-> r.exc, v |-> r.v, reads |-> r.reads]
               /\ conf' = r.conf
    /\ pc' = IF pc = "call" THEN "accessed" ELSE "done"
    /\ op' = "getattribute"
    /\ UNCHANGED <<cfme_data, log, live, engine, marks, files, ui, entity,
                   nav_tree, branches, table_cache, dbs,
                   policy_rows, location, generators>>

NextConf == Update \/ ConfigGetItem \/ ConfigGetAttribute

SpecConf == InitConf /\ [][NextConf]_vars

----------------------------------------------------------------------------
(* Claims about the recursive config merge and Config (SpecConf)           *)

KeysIn(d) == {d.v[i].key : i \in 1..Len(d.v)}

IsMapping(x) == x.kind = "rdict"
IsList(x) == x.kind = "list"
IsScalar(x) == x.kind \in {"int", "str", "bool", "None"}

\* d maps key to val
MapsTo(d, key, val) == \E i \in 1..Len(d.v) : d.v[i] = Item(key, val)

\* the value d holds at key
ValueAt(d, key) == (CHOOSE it \in {d.v[i] : i \in 1..Len(d.v)} : it.key = key).val

\* the merge returned
Merged == Ran("update") /\ ret.exc = "none"

\* result is base overlaid with over, at this level and at every level below
RECURSIVE Overlaid(_, _, _)
Overlaid(base, over, result) ==
    /\ IsMapping(result)
    /\ \A k \in KeysIn(base) \cap KeysIn(over) :
           IsScalar(ValueAt(over, k)) => MapsTo(result, k, ValueAt(over, k))
    /\ \A k \in KeysIn(base) \ KeysIn(over) : MapsTo(result, k, ValueAt(base, k))
    /\ \A k \in KeysIn(over) :
           IsList(ValueAt(over, k)) => MapsTo(result, k, ValueAt(over, k))
    /\ \A k \in KeysIn(base) \cap KeysIn(over) :
           (IsMapping(ValueAt(base, k)) /\ IsMapping(ValueAt(over, k))) =>
               /\ k \in KeysIn(result)
               /\ Overlaid(ValueAt(base, k), ValueAt(over, k), ValueAt(result, k))

\* C12: RecursiveUpdateDict.update overlays a local mapping onto a base
\* mapping so that, at every nesting depth, a key present in both whose
\* overlay value is a scalar takes the overlay value, sibling keys the overlay
\* does not name keep their base values, and a list-valued overlay leaf
\* replaces the base value as a whole.
C12_RecursiveMergeOverlays ==
    Merged => Overlaid(args.base, args.overlay, ret.v)

\* the docstring's example: only the name of the vm is overridden
C12_Witness ==
    /\ Merged
    /\ args.base = RDict(<<Item("vm", RDict(<<Item("a", PyInt(1)), Item("c", PyInt(3)),
                                              Item("name", Str("qwer"))>>))>>)
    /\ args.overlay = RDict(<<Item("vm", RDict(<<Item("name", Str("tzui"))>>))>>)
    /\ ret.v = RDict(<<Item("vm", RDict(<<Item("a", PyInt(1)), Item("c", PyInt(3)),
                                          Item("name", Str("tzui"))>>))>>)

\* the overlay names the key j of the mapping at key k
Names(over, k, j) ==
    /\ k \in KeysIn(over)
    /\ IsMapping(ValueAt(over, k))
    /\ j \in KeysIn(ValueAt(over, k))

\* the base keys the overlay did not name are where they were, with their values
UnnamedKept(base, over, result, k) ==
    /\ k \in KeysIn(result)
    /\ IsMapping(ValueAt(result, k))
    /\ \A j \in KeysIn(ValueAt(base, k)) :
           ~Names(over, k, j) =>
               MapsTo(ValueAt(result, k), j, ValueAt(ValueAt(base, k), j))

\* every nested mapping of base is still a mapping in result, at every level
RECURSIVE MappingsKept(_, _, _)
MappingsKept(base, over, result) ==
    \A k \in KeysIn(base) :
        IsMapping(ValueAt(base, k)) =>
            /\ UnnamedKept(base, over, result, k)
            /\ (k \in KeysIn(over) /\ IsMapping(ValueAt(over, k))) =>
                   MappingsKept(ValueAt(base, k), ValueAt(over, k), ValueAt(result, k))

\* C13 as stated: for every base and every overlay the merge never replaces a
\* whole nested mapping of the base: every key whose base value was a nested
\* mapping still maps to a nested mapping that contains every base key the
\* overlay did not name, with its base value.
C13_NeverReplacesMapping ==
    Merged => MappingsKept(args.base, args.overlay, ret.v)

\* a nested mapping of base is kept where the overlay leaves its key alone or
\* gives it a mapping, and is replaced where the overlay gives it another value
RECURSIVE MappingsKeptUnlessOverridden(_, _, _, _)
MappingsKeptUnlessOverridden(base, over, result, finished) ==
    \A k \in KeysIn(base) :
        IsMapping(ValueAt(base, k)) =>
            IF k \in KeysIn(over) /\ ~IsMapping(ValueAt(over, k))
            THEN finished => MapsTo(result, k, ValueAt(over, k))
            ELSE /\ UnnamedKept(base, over, result, k)
                 /\ k \in KeysIn(over) =>
                        MappingsKeptUnlessOverridden(ValueAt(base, k), ValueAt(over, k),
                                                     ValueAt(result, k), finished)

\* C13, amended: the merge keeps every nested mapping of the base whose key
\* the overlay does not name or names with a mapping: it still maps to a
\* nested mapping holding every base key the overlay did not name, with its
\* base value (also in what a merge that raised TypeError leaves behind); a
\* nested mapping whose key the overlay names with a scalar or a list is
\* replaced whole by that value.
C13_ReplacesMappingOnlyByNonMapping ==
    Ran("update") =>
        MappingsKeptUnlessOverridden(args.base, args.overlay, ret.v, ret.exc = "none")

\* the overlay gives vm a mapping beside a: the base's a, c and name survive
\* the merge of vm, and a on the top level takes the overlay's value
C13_Witness ==
    /\ Merged
    /\ args.base = RDict(<<Item("a", PyInt(1)), Item("c", PyInt(3)),
                           Item("vm", RDict(<<Item("a", PyInt(1)), Item("c", PyInt(3)),
                                              Item("name", Str("qwer"))>>))>>)
    /\ args.overlay = RDict(<<Item("vm", RDict(<<Item("a", PyInt(7))>>)),
                              Item("a", PyInt(7))>>)
    /\ ret.v = RDict(<<Item("a", PyInt(7)), Item("c", PyInt(3)),
                       Item("vm", RDict(<<Item("a", PyInt(7)), Item("c", PyInt(3)),
                                          Item("name", Str("qwer"))>>))>>)

ConfigNotFound == "ConfigNotFoundException"

\* C14: accessing a named config whose base yaml file is absent raises
\* ConfigNotFoundException and stores nothing in the Config cache for that
\* name (the cache is as it was); when the base file is there and the
\* '<name>.local' file is absent the access succeeds, and the value returned
\* and cached is the base config unmodified.
C14_NotFoundAndOptionalLocal ==
    (op = "getitem") =>
        LET key == args.key
        IN  /\ key \notin DOMAIN files =>
                   /\ ret.exc = ConfigNotFound
                   /\ key \notin DOMAIN conf
                   /\ conf = args.cached
            /\ (key \in DOMAIN files /\ (key \o ".local") \notin DOMAIN files) =>
                   /\ ret.exc = "none"
                   /\ ret.v = files[key]
                   /\ key \in DOMAIN conf
                   /\ conf[key] = files[key]
                   /\ \A k \in DOMAIN args.cached : conf[k] = args.cached[k]

\* after an access that stored nothing, cfme_data is loaded from a conf
\* directory without a cfme_data.local.yaml: the base config is cached as it is
C14_Witness ==
    /\ pc = "done"
    /\ op = "getitem"
    /\ args.key = "cfme_data"
    /\ args.cached = <<>>
    /\ DOMAIN files = {"cfme_data"}
    /\ args.base = RDict(<<Item("vm", RDict(<<Item("name", Str("qwer"))>>))>>)
    /\ ret.exc = "none"
    /\ ret.v = args.base
    /\ DOMAIN conf = {"cfme_data"}
    /\ conf["cfme_data"] = args.base

----------------------------------------------------------------------------
(* The external UI collaborators, as the calls made to them                *)

\* sel.force_navigate(dest, context=...) and nav.go_to(dest, context=...)
Nav(fn, dest, context) ==
    [fn |-> fn, dest |-> dest, context |-> context]
\* fill(form, values, action=...): values maps field names to values (None for
\* a field to leave alone); action is the button clicked after the fill, ""
\* when there is none
Fill(form, values, action) ==
    [fn |-> "fill", form |-> form, values |-> values, action |-> action]
\* sel.click(locator)
Click(locator) == [fn |-> "sel.click", locator |-> locator]
\* flash.assert_no_errors()
Flash == [fn |-> "flash.assert_no_errors"]
\* tb.select(root, item, invokes_alert=...)
TbSelect(root, item, invokes_alert) ==
    [fn |-> "tb.select", root |-> root, item |-> item,
     invokes_alert |-> invokes_alert]
\* sel.handle_alert(cancel=...)
HandleAlert(cancel) == [fn |-> "sel.handle_alert", cancel |-> cancel]
\* wait_for(func, func_args, ...)
WaitFor(func, func_args) == [fn |-> "wait_for", func |-> func, func_args |-> func_args]

\* no context passed: context=None
NoContext == PyNone

\* one step of a method: the external call it makes (none when the step is
\* plain Python) and the exception the step raises ("none" when it returns)
Step(call, exc) == [call |-> call, exc |-> exc]
Does(event) == Step(<<event>>, "none")
Raises(exc) == Step(<<>>, exc)

\* flash.assert_no_errors() raises when the page shows an error banner
FlashStep(env) ==
    Step(<<Flash>>, IF env.flash_ok THEN "none" ELSE "FlashMessageException")

\* the polls of the condition that fit into the budget num_sec of a wait
MaxPolls == 2

\* what one poll of the condition gives: not yet true, true, or an exception
\* of the polled function itself
PollOutcomes == {"false", "true", "raise"}

\* wait_for(func, func_args, handle_exception=..., num_sec=...): the condition
\* is polled until it is true or the budget is used up, and the wait then ends
\* with TimedOutError; an exception of the polled function ends the wait as
\* the failure of the polled function, except that with handle_exception=True
\* the wait may go on polling instead (retries tells which of the two the
\* wait does, both are drawn); polled is the number of polls made. A
\* fail_func handed over (sel.refresh) is called by the wait itself between
\* the polls and is no call of the method that waits
wait_for(polls, handle_exception, retries) ==
    LET ends == {i \in 1..Len(polls) :
                    \/ polls[i] = "true"
                    \/ polls[i] = "raise" /\ ~(handle_exception /\ retries)}
        first == CHOOSE i \in ends : \A j \in ends : i <= j
    IN  IF ends = {} THEN [exc |-> "TimedOutError", polled |-> Len(polls)]
        ELSE [exc |-> IF polls[first] = "true" THEN "none" ELSE "PolledFunctionError",
              polled |-> first]

\* a wait_for call in a method body
WaitStep(env, func, func_args, handle_exception) ==
    Step(<<WaitFor(func, func_args)>>,
         wait_for(env.polls, handle_exception, env.retries).exc)

\* a method body run step by step: the calls made up to and including the
\* first step that raises, and the exception it raised
Run(steps) ==
    LET bad == {i \in 1..Len(steps) : steps[i].exc # "none"}
        n == IF bad = {} THEN Len(steps)
             ELSE CHOOSE i \in bad : \A j \in bad : i <= j
        made == SelectSeq(SubSeq(steps, 1, n), LAMBDA s : s.call # <<>>)
    IN  [exc |-> IF bad = {} THEN "none" ELSE steps[n].exc,
         ui |-> [k \in 1..Len(made) |-> made[k].call[1]]]

----------------------------------------------------------------------------
(* cfme/infrastructure/host.py: Host and Host.Credential                   *)

\* Host.Credential(principal=..., secret=..., verify_secret=..., ipmi=...)
Credential(principal, secret, verify_secret, ipmi) ==
    [kind |-> "Credential", principal |-> principal, secret |-> secret,
     verify_secret |-> verify_secret, ipmi |-> ipmi]

\* kwargs.get(name)
KwGet(kwargs, name) == IF name \in DOMAIN kwargs THEN kwargs[name] ELSE PyNone

\* Host._form_mapping(create, **kwargs)
form_mapping(kwargs) ==
    [name_text |-> KwGet(kwargs, "name"),
     hostname_text |-> KwGet(kwargs, "hostname"),
     ipaddress_text |-> KwGet(kwargs, "ip_address"),
     custom_ident_text |-> KwGet(kwargs, "custom_ident"),
     host_platform |-> KwGet(kwargs, "host_platform"),
     ipmi_address_text |-> KwGet(kwargs, "ipmi_address"),
     mac_address_text |-> KwGet(kwargs, "mac_address")]

\* faulty variant: the ipmi flag is read the wrong way round
fill_credential_flag_inverted(cred, validate, env) ==
    <<Does(Fill("credential_form",
                IF ~Truthy(cred.ipmi)
                THEN [ipmi_button |-> PyTrue,
                      ipmi_principal |-> cred.principal,
                      ipmi_secret |-> cred.secret,
                      ipmi_verify_secret |-> cred.verify_secret,
                      validate_btn |-> validate]
                ELSE [default_principal |-> cred.principal,
                      default_secret |-> cred.secret,
                      default_verify_secret |-> cred.verify_secret,
                      validate_btn |-> validate],
                ""))>>
    \o (IF Truthy(validate) THEN <<FlashStep(env)>> ELSE <<>>)

\* _fill_credential(form, cred, validate=None): the steps it takes
fill_credential(cred, validate, env) ==
    <<Does(Fill("credential_form",
                IF Truthy(cred.ipmi)
                THEN [ipmi_button |-> PyTrue,
                      ipmi_principal |-> cred.principal,
                      ipmi_secret |-> cred.secret,
                      ipmi_verify_secret |-> cred.verify_secret,
                      validate_btn |-> validate]
                ELSE [default_principal |-> cred.principal,
                      default_secret |-> cred.secret,
                      default_verify_secret |-> cred.verify_secret,
                      validate_btn |-> validate],
                ""))>>
    \o (IF Truthy(validate) THEN <<FlashStep(env)>> ELSE <<>>)

\* fill(credential_form, cred, validate=...): dispatched on the type of cred,
\* to _fill_credential for a Host.Credential and to the no-op fill for None
fill_credential_form(cred, validate, env) ==
    IF cred = PyNone THEN <<Does(Fill("credential_form", PyNone, ""))>>
    ELSE fill_credential(cred, validate, env)

\* faulty variant: the submit button is clicked before the cancel button
submit_then_cancel(cancel, submit_button, env) ==
    IF Truthy(cancel)
    THEN <<Does(Click(submit_button)), Does(Click("cancel_button"))>>
    ELSE <<Does(Click(submit_button)), FlashStep(env)>>

\* Host._submit(cancel, submit_button)
submit(cancel, submit_button, env) ==
    IF Truthy(cancel)
    THEN <<Does(Click("cancel_button"))>>
    ELSE <<Does(Click(submit_button)), FlashStep(env)>>

\* Quadicon(name, qtype)
Quadicon(name, qtype) == [kind |-> "Quadicon", name |-> name, qtype |-> qtype]
\* sel.wait_for_element(locator)
WaitForElement(locator) == [fn |-> "sel.wait_for_element", locator |-> locator]

\* accordion.click(name)
AccordionClick(name) == [fn |-> "accordion.click", name |-> name]

\* the calls made by the functions that the modules register for the path to
\* a destination, from the page of the menu down to the destination
path_calls(dest, context) ==
    CASE dest = "infrastructure_host_new" ->
             <<TbSelect("Configuration", "Add a New Host", FALSE)>>
      [] dest = "infrastructure_host_discover" ->
             <<TbSelect("Configuration", "Discover Hosts", FALSE)>>
      [] dest = "infrastructure_host" ->
             <<Click(Quadicon(context.host.name, "host"))>>
      [] dest = "infrastructure_host_edit" ->
             <<Click(Quadicon(context.host.name, "host")),
               TbSelect("Configuration", "Edit this Host", FALSE)>>
      [] dest = "infrastructure_host_policy_assignment" ->
             <<Click(Quadicon(context.host.name, "host")),
               TbSelect("Policy", "Manage Policies", FALSE)>>
      [] dest = "service_dialogs" ->
             <<AccordionClick("Service Dialogs")>>
      [] dest = "service_dialog_new" ->
             <<AccordionClick("Service Dialogs"),
               Click("//div[@id='dialogs_tree_div']//td[.='All Dialogs']"),
               TbSelect("Configuration", "Add a new Dialog", FALSE),
               WaitForElement("label_form.label")>>
      [] dest = "clouds_instances_by_provider" ->
             <<AccordionClick("Instances by Provider")>>
      [] OTHER -> <<>>

\* a navigation to dest: the call of the navigator and the calls of the path
Navigated(fn, dest, context) == <<Nav(fn, dest, context)>> \o path_calls(dest, context)

\* the navigation as the steps of a method
NavSteps(fn, dest, context) ==
    [i \in 1..Len(Navigated(fn, dest, context)) |->
        Does(Navigated(fn, dest, context)[i])]

\* Host.create(cancel=False, validate_credentials=False)
Host_create(self, cancel, validate_credentials, env) ==
    Run(NavSteps("sel.force_navigate", "infrastructure_host_new", NoContext)
        \o <<Does(Fill("properties_form", form_mapping(self), ""))>>
        \o fill_credential_form(self.credentials, validate_credentials, env)
        \o fill_credential_form(self.ipmi_credentials, validate_credentials, env)
        \o submit(cancel, "add_submit", env))

\* Host.update(updates, cancel=False, validate_credentials=False)
Host_update(self, updates, cancel, validate_credentials, env) ==
    Run(NavSteps("sel.force_navigate", "infrastructure_host_edit", [host |-> self])
        \o <<Does(Fill("properties_form", form_mapping(updates), ""))>>
        \o fill_credential_form(KwGet(updates, "credentials"),
                                validate_credentials, env)
        \o submit(cancel, "save_button", env))

\* faulty variant: the alert is handled with the default, which accepts it
Host_delete_accepts(self, cancel, env) ==
    Run(NavSteps("sel.force_navigate", "infrastructure_host", [host |-> self])
        \o <<Does(TbSelect("Configuration", "Remove from the VMDB", TRUE)),
          Does(HandleAlert(PyFalse))>>)

\* Host.delete(cancel=True)
Host_delete(self, cancel, env) ==
    Run(NavSteps("sel.force_navigate", "infrastructure_host", [host |-> self])
        \o <<Does(TbSelect("Configuration", "Remove from the VMDB", TRUE)),
          Does(HandleAlert(cancel))>>)

\* Host.power_on()
Host_power_on(self) ==
    Run(NavSteps("sel.force_navigate", "infrastructure_host", [host |-> self])
        \o <<Does(TbSelect("Power", "Power On", FALSE)),
          Does(HandleAlert(PyFalse))>>)

\* Host.power_off()
Host_power_off(self) ==
    Run(NavSteps("sel.force_navigate", "infrastructure_host", [host |-> self])
        \o <<Does(TbSelect("Power", "Power Off", FALSE)),
          Does(HandleAlert(PyFalse))>>)

\* sel.is_displayed(locator)
IsDisplayed(locator) == [fn |-> "sel.is_displayed", locator |-> locator]
\* details_page.infoblock.text(*ident)
InfoblockText(ident) == [fn |-> "details_page.infoblock.text", ident |-> ident]
\* paginator.pages()
Pages == [fn |-> "paginator.pages"]

\* Host._on_detail_page(): the label of the detail page that holds self.name
on_detail_page(self) ==
    IsDisplayed([label |-> "dhtmlxInfoBarLabel-2", contains |-> self.name])

\* Host.get_detail(*ident): the page is navigated to unless it is shown
\* already (displayed); text is what the infoblock holds
Host_get_detail(self, ident, displayed, text) ==
    [exc |-> "none",
     ui |-> <<on_detail_page(self)>>
            \o (IF displayed THEN <<>>
                ELSE Navigated("sel.force_navigate", "infrastructure_host",
                               [host |-> self]))
            \o <<InfoblockText(ident)>>,
     v |-> text,
     log |-> <<>>]

\* Host.exists: shown tells, page by page, whether the quadicon of the host
\* is displayed; the pages after the first that shows it are not looked at
Host_exists(self, shown) ==
    LET found == {i \in 1..Len(shown) : shown[i]}
        looked == IF found = {} THEN Len(shown)
                  ELSE CHOOSE i \in found : \A j \in found : i <= j
    IN  [exc |-> "none",
         ui |-> Navigated("sel.force_navigate", "infrastructure_hosts", NoContext)
                \o <<Pages>>
                \o [i \in 1..looked |-> IsDisplayed(Quadicon(self.name, "host"))],
         v |-> IF found = {} THEN PyFalse ELSE PyTrue,
         log |-> <<>>]

\* wait_for_a_host()
wait_for_a_host(env) ==
    [exc |-> wait_for(env.polls, FALSE, env.retries).exc,
     ui |-> Navigated("sel.force_navigate", "infrastructure_hosts", NoContext)
            \o <<WaitFor("paginator.rec_total", <<>>)>>,
     v |-> PyNone,
     log |-> <<[level |-> "info", msg |-> "Waiting for a host to appear..."]>>]

\* wait_for_host_delete(host): every poll of the wait calls the lambda, which
\* asks sel.is_displayed for the quadicon of the host
wait_for_host_delete(host, env) ==
    [exc |-> wait_for(env.polls, FALSE, env.retries).exc,
     ui |-> Navigated("sel.force_navigate", "infrastructure_hosts", NoContext)
            \o <<WaitFor("lambda prov: not sel.is_displayed(prov)",
                         <<Quadicon(host.name, "host")>>)>>
            \o [i \in 1..wait_for(env.polls, FALSE, env.retries).polled |->
                   IsDisplayed(Quadicon(host.name, "host"))],
     v |-> PyNone,
     log |-> <<[level |-> "info", msg |-> "Waiting for a host to delete..."]>>]

----------------------------------------------------------------------------
(* cfme/services/catalogs, cfme/automate/service_dialogs.py,               *)
(* cfme/cloud/provisioning.py: Catalog, CatalogItem, ServiceDialog,        *)
(* Instance                                                                *)

\* Catalog.create()
Catalog_create(self, env) ==
    Run(<<Does(Nav("nav.go_to", "catalog_new", NoContext)),
          Does(Fill("catalog.form",
                    [name_text |-> self.name,
                     description_text |-> self.description,
                     button_multiselect |-> self.items],
                    "add_button")),
          FlashStep(env)>>)

\* faulty variant: the alert the remove action raises is left alone
Catalog_delete_leaves_alert(self, env) ==
    Run(<<Does(Nav("nav.go_to", "catalog", [catalog |-> self])),
          Does(TbSelect("Configuration", "Remove Item from the VMDB", TRUE)),
          FlashStep(env)>>)

\* Catalog.delete(); sel.handle_alert() accepts the dialog (cancel=False)
Catalog_delete(self, env) ==
    Run(<<Does(Nav("nav.go_to", "catalog", [catalog |-> self])),
          Does(TbSelect("Configuration", "Remove Item from the VMDB", TRUE)),
          Does(HandleAlert(PyFalse)),
          FlashStep(env)>>)

\* Catalog.update(updates)
Catalog_update(self, updates, env) ==
    Run(<<Does(Nav("nav.go_to", "catalog_edit", [catalog |-> self])),
          Does(Fill("catalog.form",
                    [name_text |-> KwGet(updates, "name"),
                     description_text |-> KwGet(updates, "description"),
                     button_multiselect |-> KwGet(updates, "items")],
                    "save_button"))>>)

\* a + b on strings raises TypeError when an operand is not a string
ConcatStep(operands) ==
    IF \A i \in 1..Len(operands) : operands[i].kind = "str"
    THEN Step(<<>>, "none") ELSE Raises("TypeError")

\* CatalogItem.create(); the two print statements concatenate item_type,
\* select_catalog and select_dialog with string literals
CatalogItem_create(self, env) ==
    Run(<<Does(Nav("nav.go_to", "catalog_item_new", [provider |-> self.item_type])),
          ConcatStep(<<self.item_type>>),
          ConcatStep(<<self.select_catalog, self.select_dialog>>),
          Does(Fill("catalog_item_form",
                    [name_text |-> self.name,
                     description_text |-> self.description,
                     display_checkbox |-> self.display_in,
                     select_catalog |-> self.select_catalog,
                     select_dialog |-> self.select_dialog],
                    "add_button")),
          FlashStep(env)>>)

\* ServiceDialog.create()
ServiceDialog_create(self, env) ==
    Run(NavSteps("nav.go_to", "service_dialog_new", NoContext)
        \o <<Does(Fill("label_form",
                    [label |-> self.label,
                     description_text |-> self.description,
                     submit_button |-> self.submit,
                     cancel_button |-> self.cancel],
                    "plus_button")),
          Does(Click("add_tab_button"))>>)

\* self.security_groups[0]: the exception it raises, "none" when it has a value
first_group_exc(security_groups) ==
    IF security_groups.kind # "list" THEN "TypeError"
    ELSE IF security_groups.v = <<>> THEN "IndexError"
    ELSE "none"

\* instances_by_provider_tree.click_path(path)
ClickPath(path) == [fn |-> "tree.click_path", path |-> path]
\* template_select_form.template_table.find_row_by_cells(cells)
FindRow(cells) == [fn |-> "table.find_row_by_cells", cells |-> cells]

\* context[key]: the exception it raises, "none" when the context has the key;
\* a context that was not passed is None
getitem_exc(context, key) ==
    IF context = NoContext THEN "TypeError"
    ELSE IF key \notin DOMAIN context THEN "KeyError"
    ELSE "none"

\* obj.attr: the exception it raises, "none" when the object has the attribute
getattr_exc(obj, attr) ==
    IF attr \in DOMAIN obj THEN "none" ELSE "AttributeError"

\* provider = context['provider'], context['template'].name and
\* provider.name: the exception of the first of them that raises
template_and_provider_exc(context) ==
    IF getitem_exc(context, "provider") # "none"
    THEN getitem_exc(context, "provider")
    ELSE IF getitem_exc(context, "template") # "none"
    THEN getitem_exc(context, "template")
    ELSE IF getattr_exc(context.template, "name") # "none"
    THEN getattr_exc(context.template, "name")
    ELSE getattr_exc(context.provider, "name")

\* Template(name)
Template(name) == [kind |-> "Template", name |-> name]
\* the CRUD object of a cloud provider, which has a name
Provider(name) == [kind |-> "Provider", name |-> name]

\* faulty variant: Continue is clicked although no row was found
nav_to_provision_form_continues(context, env) ==
    <<Does(ClickPath("Instances by Provider")),
      Does(TbSelect("Lifecycle", "Provision Instances", FALSE))>>
    \o (IF template_and_provider_exc(context) # "none"
        THEN <<Raises(template_and_provider_exc(context))>>
        ELSE <<Does(FindRow([Name |-> context.template.name,
                             Provider |-> context.provider.name]))>>
             \o (IF env.template_row
                 THEN <<Does(Click("template_row")), Does(Click("continue_button"))>>
                 ELSE <<Does(Click("continue_button"))>>))

\* _nav_to_provision_form(context): the action of clouds_provision_instances;
\* the provider and the template are read from the context after the tree
\* and the toolbar were used, env.template_row tells whether the table has
\* a row for the names of the template and the provider
nav_to_provision_form(context, env) ==
    <<Does(ClickPath("Instances by Provider")),
      Does(TbSelect("Lifecycle", "Provision Instances", FALSE))>>
    \o (IF template_and_provider_exc(context) # "none"
        THEN <<Raises(template_and_provider_exc(context))>>
        ELSE <<Does(FindRow([Name |-> context.template.name,
                             Provider |-> context.provider.name]))>>
             \o (IF env.template_row
                 THEN <<Does(Click("template_row")), Does(Click("continue_button"))>>
                 ELSE <<Raises("ValueError")>>))

\* sel.get_attribute(locator, attribute)
GetAttribute(locator, attribute) ==
    [fn |-> "sel.get_attribute", locator |-> locator, attribute |-> attribute]
\* sel.browser().execute_script(script)
ExecuteScript(script) == [fn |-> "sel.browser().execute_script", script |-> script]
\* sel.wait_for_ajax()
WaitForAjax == [fn |-> "sel.wait_for_ajax"]
\* sel.sleep(seconds)
Sleep(seconds) == [fn |-> "sel.sleep", seconds |-> seconds]

\* select_security_group(sg): the value of the group's option is read and set
\* on the select box by a script that posts the changed field
select_security_group(sg) ==
    <<Does(GetAttribute([select |-> "environment__security_groups", option |-> sg],
                        "value")),
      Does(ExecuteScript([val |-> "environment__security_groups",
                          post |-> "/miq_request/prov_field_changed/new",
                          group |-> sg])),
      Does(WaitForAjax),
      Does(Sleep(1))>>

\* the security_groups field of provisioning_form is the function
\* select_security_group: the fill calls it with the value given for the field
fill_security_groups(security_groups) ==
    IF first_group_exc(security_groups) = "none"
    THEN select_security_group(security_groups.v[1])
    ELSE <<>>

\* Instance.create(): the navigation runs the accordion click registered for
\* clouds_instances_by_provider and then _nav_to_provision_form
Instance_create(self, env) ==
    Run(<<Does(Nav("sel.force_navigate", "clouds_provision_instances",
                   [provider |-> self.provider, template |-> self.template])),
          Does(AccordionClick("Instances by Provider"))>>
        \o nav_to_provision_form([provider |-> self.provider,
                                  template |-> self.template], env)
        \o
        <<Step(<<>>, first_group_exc(self.security_groups)),
          Does(Fill("provisioning_form",
                    [email |-> self.email,
                     first_name |-> self.first_name,
                     last_name |-> self.last_name,
                     notes |-> self.notes,
                     instance_name |-> self.name,
                     instance_type |-> self.instance_type,
                     guest_keypair |-> self.guest_keypair,
                     availability_zone |-> self.availability_zone,
                     security_groups |->
                         IF first_group_exc(self.security_groups) = "none"
                         THEN self.security_groups.v[1] ELSE PyNone],
                    "submit_button"))>>
        \o fill_security_groups(self.security_groups)
        \o
        <<Step(<<>>, IF self.provider_mgmt = PyNone THEN "AttributeError" ELSE "none"),
          WaitStep(env, "provider_mgmt.does_vm_exist", <<self.name>>, TRUE),
          FlashStep(env)>>)

----------------------------------------------------------------------------
(* Domain entities and the calls made on them                              *)

\* an argument the caller did not pass
NotPassed == [kind |-> "notpassed"]

\* the value of a keyword parameter: the one passed, or the declared default
Param(passed, default) == IF passed = NotPassed THEN default ELSE passed

Bools == {PyFalse, PyTrue}

Credentials ==
    {Credential(Str("admin"), Str("secret"), Str("secret"), ipmi) :
         ipmi \in {PyNone, PyFalse, PyTrue}}

\* Host(name=..., hostname=..., credentials=..., ipmi_credentials=...)
Hosts ==
    {[class |-> "Host", name |-> n, hostname |-> h, ip_address |-> PyNone,
      custom_ident |-> PyNone, host_platform |-> PyNone, ipmi_address |-> PyNone,
      mac_address |-> PyNone, credentials |-> c, ipmi_credentials |-> ic,
      interface_type |-> Str("lan")] :
         n \in {PyNone, Str("h1")}, h \in {PyNone, Str("h1.example.com")},
         c \in {PyNone, Credential(Str("admin"), Str("secret"), Str("secret"), PyNone)},
         ic \in {PyNone, Credential(Str("ipmi"), Str("secret"), Str("secret"), PyTrue)}}

\* Catalog(name=..., description=..., items=...)
Catalogs ==
    {[class |-> "Catalog", name |-> n, description |-> d, items |-> i] :
         n \in {PyNone, Str("cat1")}, d \in {PyNone, Str("a catalog")},
         i \in {PyNone, List(<<Str("item1")>>)}}

\* CatalogItem(item_type=..., name=..., catalog=..., dialog=...)
CatalogItems ==
    {[class |-> "CatalogItem", item_type |-> t, name |-> Str("item1"),
      description |-> PyNone, display_in |-> d, select_catalog |-> c,
      select_dialog |-> g] :
         t \in {PyNone, Str("RHEV")}, d \in Bools, c \in {PyNone, Str("cat1")},
         g \in {PyNone, Str("dialog1")}}

\* ServiceDialog(label=..., description=..., submit=..., cancel=...)
ServiceDialogs ==
    {[class |-> "ServiceDialog", label |-> l, description |-> PyNone,
      submit |-> s, cancel |-> c] :
         l \in {PyNone, Str("dialog1")}, s \in Bools, c \in Bools}

\* Instance(name=..., security_groups=..., provider=..., provider_mgmt=...)
Instances ==
    {[class |-> "Instance", email |-> Str("a@example.com"), first_name |-> PyNone,
      last_name |-> PyNone, notes |-> PyNone, name |-> Str("vm1"),
      instance_type |-> PyNone, availability_zone |-> PyNone,
      security_groups |-> sg, provider |-> p, template |-> t,
      provider_mgmt |-> m, guest_keypair |-> PyNone] :
         sg \in {PyNone, List(<<>>), List(<<Str("sg1"), Str("sg2")>>)},
         p \in {PyNone, Provider(Str("ec2east"))},
         t \in {PyNone, Str("tmpl"), Template(Str("tmpl"))},
         m \in {PyNone, provider_factory("ec2east")}}

Entities ==
    Hosts \cup Catalogs \cup CatalogItems \cup ServiceDialogs \cup Instances
    \cup {[class |-> "Credential", cred |-> c] : c \in Credentials}

\* the updates dicts over the new values: any subset of the fields
UpdatesOver(new) == {[f \in S |-> new[f]] : S \in SUBSET DOMAIN new}

HostUpdates ==
    UpdatesOver([name |-> Str("h2"), hostname |-> Str("h2.example.com"),
                 credentials |-> Credential(Str("root"), Str("pw"), Str("pw"), PyNone)])

CatalogUpdates ==
    UpdatesOver([name |-> Str("cat2"), description |-> Str("changed"),
                 items |-> List(<<Str("item2")>>)])

\* what the external collaborators will answer
Envs ==
    [flash_ok : BOOLEAN, polls : [1..MaxPolls -> PollOutcomes],
     retries : BOOLEAN, template_row : BOOLEAN]

InitEntity ==
    /\ cfme_data = EmptyConfig
    /\ pc = "call"
    /\ op = ""
    /\ args \in [env : Envs]
    /\ entity \in Entities
    /\ ret = PyNone
    /\ log = <<>>
    /\ live = <<>>
    /\ engine = <<>>
    /\ marks = {}
    /\ files = <<>>
    /\ conf = <<>>
    /\ ui = <<>>
    /\ nav_tree = {}
    /\ branches = {}
    /\ table_cache = <<>>
    /\ dbs = <<>>
    /\ policy_rows = <<>>
    /\ location = ""
    /\ generators = <<>>

\* a method of the entity ran: the calls it made are in ui, the exception it
\* raised (or "none") is returned; no method assigns a field of self
Called(name, callargs, r) ==
    /\ pc' = "done"
    /\ op' = name
    /\ args' = callargs
    /\ ret' = [exc |-> r.exc]
    /\ ui' = ui \o r.ui
    /\ UNCHANGED <<cfme_data, log, live, engine, marks, files, conf, entity,
                   nav_tree, branches, table_cache, dbs,
                   policy_rows, location, generators>>

HostCreate ==
    /\ pc = "call" /\ entity.class = "Host"
    /\ \E cancel \in Bools \cup {NotPassed}, validate \in Bools \cup {NotPassed} :
           Called("Host.create",
               [env |-> args.env, cancel |-> cancel, validate_credentials |-> validate],
               Host_create(entity, Param(cancel, PyFalse), Param(validate, PyFalse),
                           args.env))

HostUpdate ==
    /\ pc = "call" /\ entity.class = "Host"
    /\ \E updates \in HostUpdates, cancel \in Bools, validate \in Bools :
           Called("Host.update",
               [env |-> args.env, updates |-> updates, cancel |-> cancel,
                validate_credentials |-> validate],
               Host_update(entity, updates, cancel, validate, args.env))

HostDelete ==
    /\ pc = "call" /\ entity.class = "Host"
    /\ \E cancel \in Bools \cup {NotPassed} :
           Called("Host.delete", [env |-> args.env, cancel |-> cancel],
               Host_delete(entity, Param(cancel, PyTrue), args.env))

\* fill(credential_form, cred, validate=...) on a Host.Credential
FillCredential ==
    /\ pc = "call" /\ entity.class = "Credential"
    /\ \E validate \in Bools \cup {NotPassed} :
           Called("_fill_credential", [env |-> args.env, validate |-> validate],
               Run(fill_credential(entity.cred, Param(validate, PyNone), args.env)))

CatalogCreate ==
    /\ pc = "call" /\ entity.class = "Catalog"
    /\ Called("Catalog.create", [env |-> args.env], Catalog_create(entity, args.env))

CatalogDelete ==
    /\ pc = "call" /\ entity.class = "Catalog"
    /\ Called("Catalog.delete", [env |-> args.env], Catalog_delete(entity, args.env))

CatalogUpdate ==
    /\ pc = "call" /\ entity.class = "Catalog"
    /\ \E updates \in CatalogUpdates :
           Called("Catalog.update", [env |-> args.env, updates |-> updates],
               Catalog_update(entity, updates, args.env))

CatalogItemCreate ==
    /\ pc = "call" /\ entity.class = "CatalogItem"
    /\ Called("CatalogItem.create", [env |-> args.env],
           CatalogItem_create(entity, args.env))

ServiceDialogCreate ==
    /\ pc = "call" /\ entity.class = "ServiceDialog"
    /\ Called("ServiceDialog.create", [env |-> args.env],
           ServiceDialog_create(entity, args.env))

InstanceCreate ==
    /\ pc = "call" /\ entity.class = "Instance"
    /\ Called("Instance.create", [env |-> args.env], Instance_create(entity, args.env))

HostPowerOn ==
    /\ pc = "call" /\ entity.class = "Host"
    /\ Called("Host.power_on", [env |-> args.env], Host_power_on(entity))

HostPowerOff ==
    /\ pc = "call" /\ entity.class = "Host"
    /\ Called("Host.power_off", [env |-> args.env], Host_power_off(entity))

\* a function that returns a value or writes to the log ran
CalledFor(name, callargs, r) ==
    /\ pc' = "done"
    /\ op' = name
    /\ args' = callargs
    /\ ret' = [exc |-> r.exc, v |-> r.v]
    /\ ui' = ui \o r.ui
    /\ log' = log \o r.log
    /\ UNCHANGED <<cfme_data, live, engine, marks, files, conf, entity, nav_tree,
                   branches, table_cache, dbs, policy_rows, location, generators>>

\* the infoblock keys asked for and the texts they hold
Idents == {<<"Properties", "Hostname">>, <<"Relationships", "VMs">>}

HostGetDetail ==
    /\ pc = "call" /\ entity.class = "Host"
    /\ \E ident \in Idents, displayed \in BOOLEAN :
           CalledFor("Host.get_detail",
               [env |-> args.env, ident |-> ident, displayed |-> displayed],
               Host_get_detail(entity, ident, displayed, Str("text")))

\* most pages of the hosts list
MaxPages == 2

HostExists ==
    /\ pc = "call" /\ entity.class = "Host"
    /\ \E n \in 0..MaxPages : \E shown \in [1..n -> BOOLEAN] :
           CalledFor("Host.exists", [env |-> args.env, shown |-> shown],
                     Host_exists(entity, shown))

WaitForAHost ==
    /\ pc = "call" /\ entity.class = "Host"
    /\ CalledFor("wait_for_a_host", [env |-> args.env], wait_for_a_host(args.env))

WaitForHostDelete ==
    /\ pc = "call" /\ entity.class = "Host"
    /\ CalledFor("wait_for_host_delete", [env |-> args.env, host |-> entity],
                 wait_for_host_delete(entity, args.env))

\* select_security_group(sg) on the first group of an instance
SelectSecurityGroup ==
    /\ pc = "call" /\ entity.class = "Instance"
    /\ first_group_exc(entity.security_groups) = "none"
    /\ Called("select_security_group",
              [env |-> args.env, sg |-> entity.security_groups.v[1]],
              Run(select_security_group(entity.security_groups.v[1])))

NextEntity ==
    \/ HostCreate
    \/ HostUpdate
    \/ HostDelete
    \/ HostPowerOn
    \/ HostPowerOff
    \/ HostGetDetail
    \/ HostExists
    \/ WaitForAHost
    \/ WaitForHostDelete
    \/ SelectSecurityGroup
    \/ FillCredential
    \/ CatalogCreate
    \/ CatalogDelete
    \/ CatalogUpdate
    \/ CatalogItemCreate
    \/ ServiceDialogCreate
    \/ InstanceCreate

SpecEntity == InitEntity /\ [][NextEntity]_vars

----------------------------------------------------------------------------
(* Claims about the domain entities (SpecEntity)                           *)

CreateOps ==
    {"Host.create", "Instance.create", "Catalog.create", "CatalogItem.create",
     "ServiceDialog.create"}

\* create() ran and returned normally
Created == pc = "done" /\ op \in CreateOps /\ ret.exc = "none"

\* C15: for every domain entity (Host, Instance, Catalog, CatalogItem,
\* ServiceDialog) and every argument combination, each execution of create()
\* that returns normally has the error-banner check flash.assert_no_errors as
\* its last external action.
C15_CreateEndsWithFlashCheck ==
    Created => (ui # <<>> /\ ui[Len(ui)] = Flash)

\* the destination where an entity of this class is created
CreationDest(class) ==
    CASE class = "Host" -> "infrastructure_host_new"
      [] class = "Instance" -> "clouds_provision_instances"
      [] class = "Catalog" -> "catalog_new"
      [] class = "CatalogItem" -> "catalog_item_new"
      [] class = "ServiceDialog" -> "service_dialog_new"

\* the context the creation destination needs
CreationContext(e) ==
    CASE e.class = "Instance" -> [provider |-> e.provider, template |-> e.template]
      [] e.class = "CatalogItem" -> [provider |-> e.item_type]
      [] OTHER -> NoContext

IsNav(e) == e.fn \in {"sel.force_navigate", "nav.go_to"}
IsFill(e) == e.fn = "fill"

\* the event submits the form: a click on the submit button, or a fill that
\* ends with its action button
IsSubmit(e) ==
    \/ e.fn = "sel.click" /\ e.locator \in {"add_submit", "save_button"}
    \/ e.fn = "fill" /\ e.action # ""

\* C16: every create() performs its steps in the order: force_navigate (the
\* resetting entry point) to the entity's creation destination with the
\* required context, then the form fills, then the submit action, then the
\* error-banner check; no field is filled before the navigation and the
\* creation page is never reached through the non-resetting nav.go_to.
C16_CreateOrder ==
    Created =>
        /\ ui # <<>>
        /\ ui[1] = Nav("sel.force_navigate", CreationDest(entity.class),
                       CreationContext(entity))
        /\ \A i \in 2..Len(ui) : ~IsNav(ui[i])
        /\ \E s \in 2..Len(ui) :
               /\ IsSubmit(ui[s])
               /\ \A i \in 1..Len(ui) : IsFill(ui[i]) => (1 < i /\ i <= s)
               /\ \E f \in (s + 1)..Len(ui) : ui[f] = Flash

DeleteOps == {"Host.delete", "Catalog.delete"}

\* the destination that shows the details of the entity, and its context
DetailsNav(e) ==
    CASE e.class = "Host" ->
             [dest |-> "infrastructure_host", context |-> [host |-> e]]
      [] e.class = "Catalog" ->
             [dest |-> "catalog", context |-> [catalog |-> e]]

IsRemove(e) ==
    /\ e.fn = "tb.select"
    /\ e.item \in {"Remove from the VMDB", "Remove Item from the VMDB"}
    /\ e.invokes_alert

IsAlertHandled(e) == e.fn = "sel.handle_alert"

\* the remove action was confirmed: its dialog was accepted
Removed(trace) ==
    \E i \in 2..Len(trace) :
        IsRemove(trace[i - 1]) /\ IsAlertHandled(trace[i]) /\ ~Truthy(trace[i].cancel)

\* C17: every delete() navigates to the entity's details destination, then
\* invokes the remove action, then handles the confirmation dialog exactly
\* once (accepting or cancelling it) before it returns or raises; Host.delete
\* cancels the dialog unless the caller passes cancel=False, and the host is
\* then not removed.
C17_DeleteHandlesDialogOnce ==
    (pc = "done" /\ op \in DeleteOps) =>
        /\ Len(ui) >= 3
        /\ IsNav(ui[1])
        /\ ui[1].dest = DetailsNav(entity).dest
        /\ ui[1].context = DetailsNav(entity).context
        /\ \E r \in 2..(Len(ui) - 1) :
               /\ \A i \in 2..(r - 1) :
                      ~IsNav(ui[i]) /\ ~IsRemove(ui[i]) /\ ~IsAlertHandled(ui[i])
               /\ IsRemove(ui[r])
               /\ IsAlertHandled(ui[r + 1])
               /\ ui[r + 1].cancel \in Bools
               /\ op = "Host.delete" =>
                      /\ (args.cancel # PyFalse) =>
                             (ui[r + 1].cancel = PyTrue /\ ~Removed(ui))
                      /\ (args.cancel = PyFalse) => Removed(ui)
        /\ Cardinality({i \in 1..Len(ui) : IsAlertHandled(ui[i])}) = 1

\* Host.delete() without arguments: the dialog is cancelled, nothing removed
C17_Witness ==
    /\ pc = "done"
    /\ op = "Host.delete"
    /\ args.cancel = NotPassed
    /\ entity.name = Str("h1")
    /\ ui = <<Nav("sel.force_navigate", "infrastructure_host", [host |-> entity]),
              Click(Quadicon(Str("h1"), "host")),
              TbSelect("Configuration", "Remove from the VMDB", TRUE),
              HandleAlert(PyTrue)>>
    /\ ~Removed(ui)

IpmiFields == {"ipmi_button", "ipmi_principal", "ipmi_secret", "ipmi_verify_secret"}
DefaultFields == {"default_principal", "default_secret", "default_verify_secret"}

\* C18: filling a Host.Credential selects the variant by its ipmi flag: an
\* IPMI credential selects the IPMI tab and fills only the ipmi_* fields, a
\* default credential fills only the default_* fields; the validate button
\* is triggered only when validation is requested, and then the flash error
\* check is invoked after the fill (and not otherwise).
C18_CredentialVariantByFlag ==
    (pc = "done" /\ op = "_fill_credential") =>
        LET cred == entity.cred
            requested == args.validate = PyTrue
        IN  /\ ui # <<>>
            /\ IsFill(ui[1])
            /\ ui[1].form = "credential_form"
            /\ Truthy(cred.ipmi) =>
                   /\ DOMAIN ui[1].values = IpmiFields \cup {"validate_btn"}
                   /\ ui[1].values["ipmi_button"] = PyTrue
                   /\ ui[1].values["ipmi_principal"] = cred.principal
                   /\ ui[1].values["ipmi_secret"] = cred.secret
                   /\ ui[1].values["ipmi_verify_secret"] = cred.verify_secret
            /\ ~Truthy(cred.ipmi) =>
                   /\ DOMAIN ui[1].values = DefaultFields \cup {"validate_btn"}
                   /\ ui[1].values["default_principal"] = cred.principal
                   /\ ui[1].values["default_secret"] = cred.secret
                   /\ ui[1].values["default_verify_secret"] = cred.verify_secret
            /\ Truthy(ui[1].values["validate_btn"]) <=> requested
            /\ IF requested THEN ui = <<ui[1], Flash>> ELSE ui = <<ui[1]>>

\* an IPMI credential filled with validation: the IPMI fields, then the check
C18_Witness ==
    /\ pc = "done"
    /\ op = "_fill_credential"
    /\ entity.cred.ipmi = PyTrue
    /\ args.validate = PyTrue
    /\ Len(ui) = 2
    /\ ui[1].values["ipmi_principal"] = Str("admin")
    /\ ui[1].values["validate_btn"] = PyTrue
    /\ ui[2] = Flash

UpdateOps == {"Host.update", "Catalog.update"}

\* the form field that shows the entity's field
FormField(class, field) ==
    IF class = "Host"
    THEN CASE field = "name" -> "name_text"
           [] field = "hostname" -> "hostname_text"
           [] field = "ip_address" -> "ipaddress_text"
           [] field = "custom_ident" -> "custom_ident_text"
           [] field = "host_platform" -> "host_platform"
           [] field = "ipmi_address" -> "ipmi_address_text"
           [] field = "mac_address" -> "mac_address_text"
    ELSE CASE field = "name" -> "name_text"
           [] field = "description" -> "description_text"
           [] field = "items" -> "button_multiselect"

\* the fields of the entity that its edit form shows
FormFieldsOf(class) ==
    IF class = "Host"
    THEN {"name", "hostname", "ip_address", "custom_ident", "host_platform",
          "ipmi_address", "mac_address"}
    ELSE {"name", "description", "items"}

\* the update was not cancelled
NotCancelled == op = "Catalog.update" \/ args.cancel = PyFalse

\* C19: update(updates) sends to the remote form only the fields named in
\* updates (every form field not named is passed as None), and after an
\* update that is not cancelled the local object's fields named in updates
\* hold the updated values.
C19_UpdateMergesRemoteAndLocal ==
    (pc = "done" /\ op \in UpdateOps /\ ret.exc = "none") =>
        /\ \E k \in 2..Len(ui) :
               /\ IsFill(ui[k])
               /\ \A j \in 1..(k - 1) : ~IsFill(ui[j])
               /\ \A f \in FormFieldsOf(entity.class) :
                      ui[k].values[FormField(entity.class, f)] =
                          (IF f \in DOMAIN args.updates THEN args.updates[f]
                           ELSE PyNone)
        /\ NotCancelled => \A f \in DOMAIN args.updates : entity[f] = args.updates[f]

----------------------------------------------------------------------------
(* The navigation tree: ui_navigate's add_branch and go_to,                *)
(* sel.force_navigate, and the branches the modules graft at import        *)

\* most add_branch calls made beside the ones of the modules
MaxBranches == 2

\* a node of the tree: its name, the name of its parent ("" for the root)
\* and the action that leads to it from its parent
Node(name, parent, action) == [name |-> name, parent |-> parent, action |-> action]

\* an entry of a branch mapping: name -> action, or name -> [action, {...}]
\* for the entries nested under it; under is "" for a top entry of the mapping
Entry(name, under, action) == [name |-> name, under |-> under, action |-> action]

\* cfme.web_ui.menu: the tree before any module grafts onto it
MenuTree ==
    {Node("toplevel", "", "toplevel"),
     Node("infrastructure_hosts", "toplevel", "menu:Infrastructure/Hosts"),
     Node("clouds_instances", "toplevel", "menu:Clouds/Instances"),
     Node("automate_customization", "toplevel", "menu:Automate/Customization")}

\* faulty variant: the mapping nested under infrastructure_host is lost
host_branch_without_nested ==
    {Entry("infrastructure_host_new", "", "cfg_btn('Add a New Host')"),
     Entry("infrastructure_host_discover", "", "cfg_btn('Discover Hosts')"),
     Entry("infrastructure_host", "", "sel.click(Quadicon(ctx['host'].name, 'host'))")}

\* faulty variant: the entries nested under infrastructure_host are grafted
\* beside it
host_branch_flat ==
    {Entry("infrastructure_host_new", "", "cfg_btn('Add a New Host')"),
     Entry("infrastructure_host_discover", "", "cfg_btn('Discover Hosts')"),
     Entry("infrastructure_host", "", "sel.click(Quadicon(ctx['host'].name, 'host'))"),
     Entry("infrastructure_host_edit", "", "cfg_btn('Edit this Host')"),
     Entry("infrastructure_host_policy_assignment", "", "pol_btn('Manage Policies')")}

\* host.py: nav.add_branch('infrastructure_hosts', {...})
host_branch ==
    {Entry("infrastructure_host_new", "", "cfg_btn('Add a New Host')"),
     Entry("infrastructure_host_discover", "", "cfg_btn('Discover Hosts')"),
     Entry("infrastructure_host", "", "sel.click(Quadicon(ctx['host'].name, 'host'))"),
     Entry("infrastructure_host_edit", "infrastructure_host",
           "cfg_btn('Edit this Host')"),
     Entry("infrastructure_host_policy_assignment", "infrastructure_host",
           "pol_btn('Manage Policies')")}

\* provisioning.py: nav.add_branch('clouds_instances', {...})
provisioning_branch ==
    {Entry("clouds_instances_by_provider", "",
           "accordion.click('Instances by Provider')"),
     Entry("clouds_provision_instances", "clouds_instances_by_provider",
           "_nav_to_provision_form")}

\* service_dialogs.py: nav.add_branch('automate_customization', {...})
service_dialogs_branch ==
    {Entry("service_dialogs", "", "accordion.click('Service Dialogs')"),
     Entry("service_dialog_new", "service_dialogs", "_all_servicedialogs_add_new")}

NodeNames(tree) == {n.name : n \in tree}
EntryNames(subtree) == {e.name : e \in subtree}

\* add_branch(root_name, subtree): the subtree is grafted onto the node named
\* root_name; GraphError when there is no such node
add_branch(tree, root_name, subtree) ==
    IF root_name \notin NodeNames(tree)
    THEN [exc |-> "GraphError", tree |-> tree]
    ELSE [exc |-> "none",
          tree |-> tree \cup {Node(e.name,
                                   IF e.under = "" THEN root_name ELSE e.under,
                                   e.action) : e \in subtree}]

\* the node that carries the name
NodeNamed(tree, name) == CHOOSE n \in tree : n.name = name

\* the nodes from the root down to the named node
RECURSIVE tree_path(_, _)
tree_path(tree, name) ==
    LET n == NodeNamed(tree, name)
    IN  IF n.parent = "" THEN <<n>> ELSE Append(tree_path(tree, n.parent), n)

\* the action of a node run with the context
NavAction(node, context) ==
    [fn |-> "nav.action", node |-> node.name, action |-> node.action,
     context |-> context]

\* the reset to the known root state that force_navigate starts with
NavReset == [fn |-> "sel.reset"]

\* the exception that the action of a node raises when it is run with the
\* context, "none" when it returns: the quadicon click reads ctx['host'].name,
\* _nav_to_provision_form reads the provider and the template and raises
\* ValueError when the table has no row for them
action_exc(node, context, env) ==
    CASE node.action = "sel.click(Quadicon(ctx['host'].name, 'host'))" ->
             IF getitem_exc(context, "host") # "none"
             THEN getitem_exc(context, "host")
             ELSE getattr_exc(context.host, "name")
      [] node.action = "_nav_to_provision_form" ->
             Run(nav_to_provision_form(context, env)).exc
      [] OTHER -> "none"

\* the nodes whose actions lead to the destination: the whole path from the
\* root, or the part of it below the node named start when that node is on
\* the path ("" names no node)
walk(tree, dest, start) ==
    LET path == tree_path(tree, dest)
        at == {i \in 1..Len(path) : path[i].name = start}
    IN  IF at = {} THEN path
        ELSE SubSeq(path, (CHOOSE i \in at : TRUE) + 1, Len(path))

\* go_to(destination_name, context): DestinationNotFound when no node carries
\* the name; otherwise the actions on the path run from the root down (from
\* below the location marker start, when the navigator keeps one) until the
\* destination's own has run or one raises, which ends the call with that
\* exception; location is the node reached
go_to(tree, dest, context, env, start) ==
    IF dest \notin NodeNames(tree)
    THEN [exc |-> "DestinationNotFound", ui |-> <<>>, location |-> start]
    ELSE LET path == walk(tree, dest, start)
             bad == {i \in 1..Len(path) : action_exc(path[i], context, env) # "none"}
             n == IF bad = {} THEN Len(path)
                  ELSE CHOOSE i \in bad : \A j \in bad : i <= j
         IN  [exc |-> IF bad = {} THEN "none" ELSE action_exc(path[n], context, env),
              ui |-> [i \in 1..n |-> NavAction(path[i], context)],
              location |-> IF bad = {} THEN dest
                           ELSE IF n > 1 THEN path[n - 1].name
                           ELSE start]

\* faulty variant: the walk starts from the location marker, without a reset
force_navigate_without_reset(tree, dest, context, env, start) ==
    Bind(go_to(tree, dest, context, env, start), LAMBDA r :
        [exc |-> r.exc, ui |-> <<NavReset>> \o r.ui, location |-> r.location])

\* force_navigate(destination_name, context): like go_to after a reset to the
\* root state, which forgets the location marker start
force_navigate(tree, dest, context, env, start) ==
    Bind(go_to(tree, dest, context, env, ""), LAMBDA r :
        [exc |-> r.exc, ui |-> <<NavReset>> \o r.ui, location |-> r.location])

\* the contexts a navigation is called with: none, context={'host': self},
\* and context={'provider': ..., 'template': ...}
Contexts ==
    {NoContext,
     [host |-> [class |-> "Host", name |-> Str("h1")]],
     [provider |-> Provider(Str("ec2east")), template |-> Template(Str("tmpl"))]}

\* what a navigation is run with: the context, whether the table of templates
\* has the row (asked only with a provider and a template), and whether the
\* navigator keeps a location marker that go_to starts from
NavInputs ==
    {a \in [context : Contexts, env : [template_row : BOOLEAN], tracks : BOOLEAN,
            previous : {PyNone}] :
        a.env.template_row \/ a.context = [provider |-> Provider(Str("ec2east")),
                                           template |-> Template(Str("tmpl"))]}

\* the mappings grafted by code beside the modules modelled here
OtherBranches ==
    {{Entry("extra_page", "", "click:extra_page")},
     {Entry("extra_page", "", "click:extra_page"),
      Entry("extra_page_detail", "extra_page", "click:extra_page_detail")},
     {Entry("extra_page_detail", "", "click:extra_page_detail")}}

\* the names the mappings are grafted onto; no node is named no_such_page
OtherRoots == {"toplevel", "infrastructure_host", "no_such_page"}

\* the destinations asked for; no node is named no_such_destination
Destinations ==
    {"infrastructure_host", "infrastructure_host_edit",
     "clouds_provision_instances", "service_dialog_new", "extra_page_detail",
     "no_such_destination"}

\* an add_branch call that was made: the module that made it, its arguments
\* and its outcome
Branch(module, root_name, subtree, exc) ==
    [module |-> module, root |-> root_name, subtree |-> subtree, exc |-> exc]

Imported(module) == \E b \in branches : b.module = module

InitNav ==
    /\ cfme_data = EmptyConfig
    /\ pc = "build"
    /\ op = ""
    /\ args \in NavInputs
    /\ ret = PyNone
    /\ log = <<>>
    /\ live = {}
    /\ engine = <<>>
    /\ marks = <<>>
    /\ files = <<>>
    /\ conf = <<>>
    /\ ui = <<>>
    /\ entity = <<>>
    /\ nav_tree = MenuTree
    /\ branches = {}
    /\ table_cache = <<>>
    /\ dbs = <<>>
    /\ policy_rows = <<>>
    /\ location = ""
    /\ generators = <<>>

\* a module's add_branch call at import
Graft(module, root_name, subtree) ==
    /\ pc = "build"
    /\ nav_tree' = add_branch(nav_tree, root_name, subtree).tree
    /\ branches' = branches \cup
           {Branch(module, root_name, subtree,
                   add_branch(nav_tree, root_name, subtree).exc)}
    /\ op' = "add_branch"
    /\ ret' = PyNone
    /\ UNCHANGED <<cfme_data, pc, args, log, live, engine, marks, files, conf,
                   ui, entity, table_cache, dbs,
                   policy_rows, location, generators>>

\* import cfme.infrastructure.host
ImportHost ==
    /\ ~ Imported("cfme.infrastructure.host")
    /\ Graft("cfme.infrastructure.host", "infrastructure_hosts", host_branch)

\* import cfme.cloud.provisioning
ImportProvisioning ==
    /\ ~ Imported("cfme.cloud.provisioning")
    /\ Graft("cfme.cloud.provisioning", "clouds_instances", provisioning_branch)

\* import cfme.automate.service_dialogs
ImportServiceDialogs ==
    /\ ~ Imported("cfme.automate.service_dialogs")
    /\ Graft("cfme.automate.service_dialogs", "automate_customization",
             service_dialogs_branch)

\* an add_branch call of another module, with names no node carries yet
AddBranch ==
    /\ Cardinality({b \in branches : b.module = "other"}) < MaxBranches
    /\ \E root_name \in OtherRoots, subtree \in OtherBranches :
          /\ EntryNames(subtree) \cap NodeNames(nav_tree) = {}
          /\ Graft("other", root_name, subtree)

\* a resolution: the tree is complete when the first one is made, and a
\* second may follow; previous is the resolution made before this one
Resolved(name, dest, r) ==
    /\ pc \in {"build", "went"}
    /\ pc' = IF pc = "build" THEN "went" ELSE "done"
    /\ op' = name
    /\ args' = [context |-> args.context, env |-> args.env, tracks |-> args.tracks,
                dest |-> dest, start |-> location,
                previous |-> IF pc = "build" THEN PyNone
                             ELSE [op |-> op, dest |-> args.dest, exc |-> ret.exc,
                                   ui |-> ret.ui]]
    /\ ret' = [exc |-> r.exc, ui |-> r.ui]
    /\ ui' = ui \o r.ui
    /\ location' = r.location
    /\ UNCHANGED <<cfme_data, log, live, engine, marks, files, conf, entity,
                   nav_tree, branches, table_cache, dbs,
                   policy_rows, generators>>

\* nav.go_to(dest, context): from the location marker when one is kept
GoTo ==
    \E dest \in Destinations :
        Resolved("go_to", dest,
                 go_to(nav_tree, dest, args.context, args.env,
                       IF args.tracks THEN location ELSE ""))

\* sel.force_navigate(dest, context)
ForceNavigate ==
    \E dest \in Destinations :
        Resolved("force_navigate", dest,
                 force_navigate(nav_tree, dest, args.context, args.env, location))

NextNav ==
    \/ ImportHost
    \/ ImportProvisioning
    \/ ImportServiceDialogs
    \/ AddBranch
    \/ GoTo
    \/ ForceNavigate

SpecNav == InitNav /\ [][NextNav]_vars

----------------------------------------------------------------------------
(* Claims about the navigation tree                                        *)

\* the names of the mappings that add_branch grafted
InsertedNames == UNION {EntryNames(b.subtree) : b \in {c \in branches : c.exc = "none"}}

\* the nodes whose actions the last resolution ran, in order
NodesRun ==
    Bind(SelectSeq(ret.ui, LAMBDA e : e.fn = "nav.action"), LAMBDA ran :
        [i \in 1..Len(ran) |-> ran[i].node])

AfterResolution == pc \in {"went", "done"} /\ op \in {"go_to", "force_navigate"}

\* the parent named by the node that carries the name
ParentOf(name) == (CHOOSE n \in nav_tree : n.name = name).parent

\* the walk started at the root: always for force_navigate, and for go_to
\* unless the navigator keeps a location marker
FromRoot == op = "force_navigate" \/ ~args.tracks

\* the exceptions of the actions that the modules register
ActionExceptions == {"TypeError", "KeyError", "AttributeError", "ValueError"}

ActionsRun == SelectSeq(ret.ui, LAMBDA e : e.fn = "nav.action")

\* the actions run are actions of the tree, each run once with the caller's
\* context, every one the action of a child of the one before
RunDownTheTree ==
    \A i \in 1..Len(ActionsRun) :
        /\ ActionsRun[i].context = args.context
        /\ ActionsRun[i].action =
              (CHOOSE n \in nav_tree : n.name = ActionsRun[i].node).action
        /\ i > 1 => ParentOf(ActionsRun[i].node) = ActionsRun[i - 1].node
        /\ \A j \in 1..Len(ActionsRun) :
              i # j => ActionsRun[i].node # ActionsRun[j].node

\* the node is the destination or one of its ancestors
RECURSIVE OnPathTo(_, _)
OnPathTo(node, dest) ==
    \/ node = dest
    \/ ParentOf(dest) # "" /\ OnPathTo(node, ParentOf(dest))

\* the labels of the actions run
ActionLabels == [i \in 1..Len(ActionsRun) |-> ActionsRun[i].action]

\* C21 as stated: every resolution of a name that a node carries runs the
\* action of every ancestor of the destination and then the destination's
\* own, each once, from the root down, every one with the caller's context,
\* and nothing of a node off the path: force_navigate to
\* infrastructure_host_edit runs the infrastructure_hosts step, the quadicon
\* click and then the edit action.
C21_PathOrderAndContext ==
    (AfterResolution /\ args.dest \in NodeNames(nav_tree)) =>
        /\ ActionsRun # <<>>
        /\ ParentOf(ActionsRun[1].node) = ""
        /\ ActionsRun[Len(ActionsRun)].node = args.dest
        /\ RunDownTheTree
        /\ (Imported("cfme.infrastructure.host") /\ op = "force_navigate"
              /\ args.dest = "infrastructure_host_edit") =>
              ActionLabels = <<"toplevel", "menu:Infrastructure/Hosts",
                               "sel.click(Quadicon(ctx['host'].name, 'host'))",
                               "cfg_btn('Edit this Host')">>

\* C21 amended: a resolution of a name that a node carries runs actions of
\* nodes on the path to the destination only, from the root down (go_to from
\* below the location marker when the navigator keeps one), each once and
\* with the caller's context, until the destination's own action has run or
\* an action raises; the exception of that action ends the resolution and no
\* action below it is run. force_navigate to infrastructure_host_edit runs
\* the infrastructure_hosts step, the quadicon click and then the edit
\* action, and stops after the quadicon click when the context has no host.
C21_PathOrderAndContextUntilRaise ==
    (AfterResolution /\ args.dest \in NodeNames(nav_tree)) =>
        /\ RunDownTheTree
        /\ \A i \in 1..Len(ActionsRun) : OnPathTo(ActionsRun[i].node, args.dest)
        /\ FromRoot => (ActionsRun # <<>> /\ ParentOf(ActionsRun[1].node) = "")
        /\ (~FromRoot /\ ActionsRun # <<>>) =>
              ParentOf(ActionsRun[1].node) \in {"", args.start}
        /\ ret.exc = "none" =>
              /\ location = args.dest
              /\ ActionsRun # <<>> => ActionsRun[Len(ActionsRun)].node = args.dest
              /\ ActionsRun = <<>> => args.start = args.dest
        /\ ret.exc # "none" =>
              /\ ret.exc \in ActionExceptions
              /\ ActionsRun # <<>>
              /\ ActionsRun[Len(ActionsRun)].action \in
                    {"sel.click(Quadicon(ctx['host'].name, 'host'))",
                     "_nav_to_provision_form"}
        /\ (Imported("cfme.infrastructure.host") /\ op = "force_navigate"
              /\ args.dest = "infrastructure_host_edit") =>
              IF "host" \in DOMAIN args.context
              THEN /\ ret.exc = "none"
                   /\ ActionLabels =
                         <<"toplevel", "menu:Infrastructure/Hosts",
                           "sel.click(Quadicon(ctx['host'].name, 'host'))",
                           "cfg_btn('Edit this Host')">>
              ELSE /\ ret.exc \in {"TypeError", "KeyError"}
                   /\ ActionLabels =
                         <<"toplevel", "menu:Infrastructure/Hosts",
                           "sel.click(Quadicon(ctx['host'].name, 'host'))">>

\* the host edit page was asked for with a context that holds no host, while
\* the other modules' branches were in the tree too: the quadicon click
\* raised and the edit action was not run
C21_Witness ==
    /\ AfterResolution
    /\ op = "force_navigate"
    /\ args.dest = "infrastructure_host_edit"
    /\ "provider" \in DOMAIN args.context
    /\ ret.exc = "KeyError"
    /\ Len(ActionsRun) = 3
    /\ Imported("cfme.cloud.provisioning")
    /\ Imported("cfme.automate.service_dialogs")

\* the resolution before the last one was a force_navigate to the same
\* destination
SameTwice ==
    /\ pc = "done"
    /\ op = "force_navigate"
    /\ args.previous.op = "force_navigate"
    /\ args.previous.dest = args.dest

\* C22 as stated: whatever was resolved before, successfully or not, a
\* force_navigate to a name that a node carries resets to the root state and
\* then runs the complete sequence of actions from the root to its
\* destination, so that the same destination twice in a row runs the same
\* events twice.
C22_ReplayIgnoresHistory ==
    (AfterResolution /\ op = "force_navigate"
        /\ args.dest \in NodeNames(nav_tree)) =>
        /\ ret.ui # <<>>
        /\ ret.ui[1] = NavReset
        /\ Len(ret.ui) = Len(ActionsRun) + 1
        /\ ActionsRun # <<>>
        /\ ParentOf(ActionsRun[1].node) = ""
        /\ \A i \in 2..Len(ActionsRun) :
              ParentOf(ActionsRun[i].node) = ActionsRun[i - 1].node
        /\ ActionsRun[Len(ActionsRun)].node = args.dest
        /\ SameTwice => args.previous.ui = ret.ui

\* C22 amended: whatever was resolved before, by go_to or force_navigate,
\* successfully or not, and wherever the location marker was left, a
\* force_navigate resets to the root state and then runs the actions from the
\* root down towards its destination, all of them unless one raises: the same
\* destination twice in a row runs the same events twice with the same
\* outcome, and a destination that shares ancestors with the earlier one
\* runs the shared ancestors' actions again (service_dialog_new runs
\* automate_customization and service_dialogs each time).
C22_ReplayIgnoresHistoryUntilRaise ==
    (AfterResolution /\ op = "force_navigate") =>
        /\ ret.ui # <<>>
        /\ ret.ui[1] = NavReset
        /\ Len(ret.ui) = Len(ActionsRun) + 1
        /\ args.dest \in NodeNames(nav_tree) =>
              /\ ActionsRun # <<>>
              /\ ParentOf(ActionsRun[1].node) = ""
              /\ \A i \in 2..Len(ActionsRun) :
                    ParentOf(ActionsRun[i].node) = ActionsRun[i - 1].node
              /\ OnPathTo(ActionsRun[Len(ActionsRun)].node, args.dest)
              /\ ret.exc = "none" => ActionsRun[Len(ActionsRun)].node = args.dest
              /\ ret.exc # "none" => ret.exc \in ActionExceptions
        /\ SameTwice => (args.previous.ui = ret.ui /\ args.previous.exc = ret.exc)
        /\ (Imported("cfme.automate.service_dialogs")
              /\ args.dest = "service_dialog_new") =>
              /\ ret.exc = "none"
              /\ NodesRun = <<"toplevel", "automate_customization",
                              "service_dialogs", "service_dialog_new">>

\* the navigator keeps a location marker; force_navigate to the host edit
\* page failed in the quadicon click, which left the marker on
\* infrastructure_hosts, and the same force_navigate was made again
C22_Witness ==
    /\ SameTwice
    /\ args.tracks
    /\ args.dest = "infrastructure_host_edit"
    /\ args.start = "infrastructure_hosts"
    /\ args.previous.exc = "TypeError"
    /\ ret.exc = "TypeError"
    /\ args.previous.ui = ret.ui
    /\ Len(ret.ui) = 4

----------------------------------------------------------------------------
(* Claims about Instance.create and its navigation action                  *)

InstanceCreated == pc = "done" /\ op = "Instance.create"

\* the provisioning form was filled and submitted
Submitted ==
    \E i \in 1..Len(ui) :
        ui[i].fn = "fill" /\ ui[i].form = "provisioning_form"
            /\ ui[i].action = "submit_button"

FlashChecked == \E i \in 1..Len(ui) : ui[i] = Flash

\* the polled function does_vm_exist answers every poll: it never raises
PollsAnswered == \A i \in 1..MaxPolls : args.env.polls[i] # "raise"

\* C23: once Instance.create has submitted the provisioning form it ends in
\* one of two ways: the backend reported the VM within the budget and the
\* error-banner check was made, or the VM never appeared, the wait ended with
\* the timeout error and the check was not made. This is stated for the runs
\* in which the polled function itself never fails, so that it does not
\* depend on how the wait reports such a failure.
C23_WaitEndsWithCheckOrTimeout ==
    (InstanceCreated /\ Submitted /\ PollsAnswered) =>
        \/ /\ \E i \in 1..MaxPolls : args.env.polls[i] = "true"
           /\ FlashChecked
           /\ ret.exc \in {"none", "FlashMessageException"}
        \/ /\ \A i \in 1..MaxPolls : args.env.polls[i] = "false"
           /\ ret.exc = "TimedOutError"
           /\ ~FlashChecked

\* the clicks made on the template selection page
TemplateClicks ==
    SelectSeq(ui, LAMBDA e :
        e.fn = "sel.click" /\ e.locator \in {"template_row", "continue_button"})

NavigatedToForm ==
    \E i \in 1..Len(ui) : ui[i].fn = "table.find_row_by_cells"

\* C27: when the template table has no row for the context's template and
\* provider, the action that leads to the provisioning form raises, no row
\* and no Continue button is clicked and Instance.create fills nothing; when
\* there is a row, it is clicked, then Continue, and the action returns, so
\* that create goes on.
C27_NoTemplateRowFailsNavigation ==
    InstanceCreated =>
        /\ ~args.env.template_row =>
              /\ ret.exc \in {"ValueError", "AttributeError"}
              /\ TemplateClicks = <<>>
              /\ \A i \in 1..Len(ui) : ~IsFill(ui[i])
        /\ (~args.env.template_row /\ NavigatedToForm) => ret.exc = "ValueError"
        /\ (args.env.template_row /\ NavigatedToForm) =>
              /\ TemplateClicks = <<Click("template_row"), Click("continue_button")>>
              /\ ret.exc # "ValueError"
              /\ first_group_exc(entity.security_groups) = "none" => Submitted

\* the template table was searched and had no matching row
C27_Witness ==
    /\ InstanceCreated
    /\ NavigatedToForm
    /\ ~args.env.template_row
    /\ ret.exc = "ValueError"
    /\ first_group_exc(entity.security_groups) = "none"
    /\ entity.provider_mgmt # PyNone

----------------------------------------------------------------------------
(* Claims about the buttons of Host.create and Host.update                 *)

HostSubmitted == pc = "done" /\ op \in {"Host.create", "Host.update"}

\* the cancel argument in effect (both methods default to False)
CancelArg == Truthy(Param(args.cancel, PyFalse))

\* the places in the trace after the navigation: the calls of the method on
\* the page it navigated to
OnThePage ==
    (Len(Navigated(ui[1].fn, ui[1].dest, ui[1].context)) + 1)..Len(ui)

\* the places in the trace where the button was clicked
ClicksOn(locator) == {i \in OnThePage : ui[i] = Click(locator)}

\* the places in the trace where a form was filled
FillsMade == {i \in 1..Len(ui) : IsFill(ui[i])}

\* the fill calls of the method: the properties form and the credentials
\* (default and IPMI for create, the updated ones for update)
FillCount == IF op = "Host.create" THEN 3 ELSE 2

SubmitButton == IF op = "Host.create" THEN "add_submit" ELSE "save_button"

\* the button was clicked once, after every fill of the method
ClickedOnceAfterFills(locator) ==
    /\ Cardinality(ClicksOn(locator)) = 1
    /\ Cardinality(FillsMade) = FillCount
    /\ \A c \in ClicksOn(locator) : \A f \in FillsMade : f < c

\* C24 as stated: create(cancel=True) clicks cancel only after the properties
\* form and both credentials were filled and never clicks 'Add this Host';
\* create(cancel=False) and update(cancel=False) click the submit/save button
\* exactly once after all fills and never click cancel.
C24_CancelAfterFillsSubmitOnce ==
    HostSubmitted =>
        /\ (op = "Host.create" /\ CancelArg) =>
              /\ \A c \in ClicksOn("cancel_button") :
                    Cardinality({f \in FillsMade : f < c}) = FillCount
              /\ ClicksOn("add_submit") = {}
        /\ ~CancelArg =>
              /\ ClickedOnceAfterFills(SubmitButton)
              /\ ClicksOn("cancel_button") = {}

\* a credential fill with validation found an error banner
ValidationRaised ==
    /\ ret.exc = "FlashMessageException"
    /\ \A i \in OnThePage : ui[i].fn # "sel.click"

\* C24 (amended): as stated, except that with cancel=False the submit/save
\* button is clicked exactly once only when no credential validation raised
\* before; when one did, the method ends there and no button is clicked.
C24_SubmitOnceUnlessValidationRaised ==
    HostSubmitted =>
        /\ (op = "Host.create" /\ CancelArg) =>
              /\ \A c \in ClicksOn("cancel_button") :
                    Cardinality({f \in FillsMade : f < c}) = FillCount
              /\ ClicksOn("add_submit") = {}
        /\ ~CancelArg =>
              /\ ClicksOn("cancel_button") = {}
              /\ \/ ClickedOnceAfterFills(SubmitButton)
                 \/ /\ ValidationRaised
                    /\ Truthy(Param(args.validate_credentials, PyFalse))
                    /\ ~args.env.flash_ok

\* a host with both credentials was created with cancel=True: the cancel
\* button was clicked after the three fills
C24_Witness ==
    /\ HostSubmitted
    /\ op = "Host.create"
    /\ CancelArg
    /\ entity.credentials # PyNone
    /\ entity.ipmi_credentials # PyNone
    /\ Cardinality(ClicksOn("cancel_button")) = 1
    /\ Cardinality(FillsMade) = 3

----------------------------------------------------------------------------
(* Claim about the CRUD objects in the rows of provider_by_type            *)

\* the items that pass the type filter of the call
RetainedItems ==
    SelectSeq(Inventory, LAMBDA item :
        args.provider_types = PyNone \/ item.data["type"].v \in args.provider_types.v)

\* the CRUD object constructed from the item's own key
CrudOf(item) ==
    IF item.data["type"].v \in cloud_provider_type_map
    THEN get_cloud_provider(item.key)
    ELSE get_infra_provider(item.key)

\* the value appended to the row for the special argname s
SpecialValueIn(row, an, s) ==
    LET sp == SpecialsIn(an)
        k == CHOOSE i \in 1..Len(sp) : sp[i] = s
    IN  row[Len(row) - Len(sp) + k]

\* C25: the provider_crud value of a row is the CRUD object constructed from
\* that row's own inventory key, and an item that passes the type filter with
\* a type in neither the cloud nor the infra type map makes the call raise
\* NameError, whatever items came before it.
C25_CrudOfOwnKeyOrNameError ==
    RanProvider =>
        /\ (\E i \in 1..Len(RetainedItems) : ~KnownType(RetainedItems[i]))
               => ret.exc = "NameError"
        /\ (Returned /\ InSeq("provider_crud", ret.argnames)) =>
               \A r \in 1..Len(ret.argvalues) :
                   SpecialValueIn(ret.argvalues[r], ret.argnames, "provider_crud")
                       = CrudOf(ItemOf(Inventory, ret.idlist[r]))

----------------------------------------------------------------------------
(* cfme/tests/infrastructure/test_pxe_provisioning.py: pytest_generate_tests *)

\* cfme.infrastructure.pxe.get_template_from_config(template)
get_template_from_config(template) == [kind |-> "template", key |-> template]

\* a section that cfme_data does not have
NoSection == [kind |-> "missing"]
\* a section of cfme_data, given by its keys
SectionKeys(S) == [kind |-> "section", keys |-> S]

\* the keys a provider's provisioning data needs for template provisioning
RequiredProvisioningKeys ==
    {"pxe_template", "host", "datastore", "pxe_server", "pxe_image",
     "pxe_kickstart", "pxe_root_password", "pxe_image_type", "vlan"}

\* pxe_server_names = [pval[0] for pval in pargvalues]
pxe_server_names(pargvalues) == {pargvalues[i][1] : i \in 1..Len(pargvalues)}

\* faulty variant of the loop body: the customization template is not looked up
pxe_row_step_any_template(st, config, names, row, id) ==
    LET provisioning == row[1]
    IN  IF ~Truthy(provisioning) THEN st
        ELSE IF ~(RequiredProvisioningKeys \subseteq DOMAIN provisioning.v) THEN st
        ELSE IF provisioning.v.pxe_server \notin names THEN st
        ELSE [st EXCEPT
                 !.live = @ \o <<Call("get_pxe_server_from_config",
                                     provisioning.v.pxe_server.v),
                                Call("get_template_from_config",
                                     provisioning.v.pxe_kickstart.v)>>,
                 !.idlist = Append(@, id),
                 !.argvalues = Append(@, row \o
                     <<get_pxe_server_from_config(provisioning.v.pxe_server.v),
                       get_template_from_config(provisioning.v.pxe_kickstart.v)>>)]

\* one pass of the loop over the rows of infra_providers (lines 29-53):
\* args['provisioning'] is the first value of the row
pxe_row_step(st, config, names, row, id) ==
    LET provisioning == row[1]
    IN  IF ~Truthy(provisioning) THEN st
        ELSE IF ~(RequiredProvisioningKeys \subseteq DOMAIN provisioning.v) THEN st
        ELSE IF provisioning.v.pxe_server \notin names THEN st
        ELSE IF config.customization_templates = NoSection
        THEN [st EXCEPT !.exc = "KeyError"]
        ELSE IF provisioning.v.pxe_kickstart.v
                    \notin config.customization_templates.keys
        THEN st
        ELSE [st EXCEPT
                 !.live = @ \o <<Call("get_pxe_server_from_config",
                                     provisioning.v.pxe_server.v),
                                Call("get_template_from_config",
                                     provisioning.v.pxe_kickstart.v)>>,
                 !.idlist = Append(@, id),
                 !.argvalues = Append(@, row \o
                     <<get_pxe_server_from_config(provisioning.v.pxe_server.v),
                       get_template_from_config(provisioning.v.pxe_kickstart.v)>>)]

\* the loop from row i on; an exception ends it
RECURSIVE pxe_row_loop(_, _, _, _, _, _)
pxe_row_loop(st, config, names, argvalues, idlist, i) ==
    IF i > Len(argvalues) \/ st.exc # "none" THEN st
    ELSE Bind(pxe_row_step(st, config, names, argvalues[i], idlist[i]),
              LAMBDA next :
                  pxe_row_loop(next, config, names, argvalues, idlist, i + 1))

\* pytest_generate_tests(metafunc) of the PXE provisioning test: what it hands
\* to testgen.parametrize and the effects of the whole hook
pxe_generate_tests(config, metafunc) ==
    Bind(infra_providers(config, metafunc, <<"provisioning">>), LAMBDA g :
    Bind(pxe_servers(config, metafunc), LAMBDA p :
        IF g.exc # "none"
        THEN [exc |-> g.exc, argnames |-> <<>>, argvalues |-> <<>>, idlist |-> <<>>,
              log |-> g.log, live |-> g.live, marks |-> {}, engine |-> <<>>]
        ELSE
        Bind(pxe_row_loop([exc |-> "none", idlist |-> <<>>, argvalues |-> <<>>,
                           live |-> <<>>],
                          config, pxe_server_names(p.argvalues), g.argvalues,
                          g.idlist, 1),
             LAMBDA st :
        Bind(g.argnames \o <<"pxe_server", "pxe_cust_template">>, LAMBDA argnames :
            IF st.exc # "none"
            THEN [exc |-> st.exc, argnames |-> <<>>, argvalues |-> <<>>,
                  idlist |-> <<>>, log |-> g.log,
                  live |-> g.live \o p.live \o st.live, marks |-> {},
                  engine |-> <<>>]
            ELSE
            Bind(parametrize(metafunc, argnames, st.argvalues,
                             [ids |-> st.idlist, scope |-> "module",
                              indirect |-> FALSE]),
                 LAMBDA r :
                [exc |-> "none", argnames |-> argnames, argvalues |-> st.argvalues,
                 idlist |-> st.idlist, log |-> g.log \o r.log,
                 live |-> g.live \o p.live \o st.live, marks |-> r.marks,
                 engine |-> r.engine])))))

\* provisioning data with every required key
FullProvisioning(server, kickstart) ==
    Dict([pxe_template |-> Str("tmpl"), host |-> Str("host1"),
          datastore |-> Str("ds1"), pxe_server |-> Str(server),
          pxe_image |-> Str("img"), pxe_kickstart |-> Str(kickstart),
          pxe_root_password |-> Str("pw"), pxe_image_type |-> Str("rhel"),
          vlan |-> Str("vlan1")])

\* a provider's provisioning data: complete, without vlan, or null
Provisionings ==
    {FullProvisioning(s, k) : s \in {"N_pxe1", "pxe1"}, k \in {"ks1", "ks2"}}
    \cup {Dict([pxe_template |-> Str("tmpl"), host |-> Str("host1"),
                datastore |-> Str("ds1"), pxe_server |-> Str("N_pxe1"),
                pxe_image |-> Str("img"), pxe_kickstart |-> Str("ks1"),
                pxe_root_password |-> Str("pw"), pxe_image_type |-> Str("rhel")]),
          PyNone}

\* a provider of the PXE test's inventory: an infra provider with or without
\* provisioning data, or a cloud provider with complete data
PxeProviderDatas(key) ==
    {[type |-> Str("rhevm")]}
    \cup {[type |-> Str("rhevm"), provisioning |-> p] : p \in Provisionings}
    \cup {[type |-> Str("ec2"), provisioning |-> FullProvisioning("N_pxe1", "ks1")]}

PxeConfigs ==
    {[management_systems |-> s, pxe_servers |-> p, auth_modes |-> PyNone,
      group_roles |-> <<>>, customization_templates |-> t] :
         s \in Sections(ProviderKeys, PxeProviderDatas),
         p \in {x \in Sections(PxeKeys, PxeDatas) : Len(x) <= 1},
         t \in {NoSection, SectionKeys({}), SectionKeys({"ks1"})}}

\* what the PXE test functions declare
PxeMetafuncs ==
    [fixturenames : {{}, {"provisioning", "pxe_server", "pxe_cust_template"},
                     {"provisioning", "pxe_server", "pxe_cust_template",
                      "provider_key", "provider_crud"}},
     module : {Str("test_mod")}, cls : {PyNone}, function : {"test_fn"}]

InitPxe ==
    /\ cfme_data \in PxeConfigs
    /\ pc = "call"
    /\ op = ""
    /\ args \in [metafunc : PxeMetafuncs]
    /\ ret = PyNone
    /\ log = <<>>
    /\ live = <<>>
    /\ engine = <<>>
    /\ marks = {}
    /\ OthersIdle

\* the PXE provisioning test is collected
PxeGenerateTests ==
    /\ pc = "call"
    /\ LET h == pxe_generate_tests(cfme_data, args.metafunc)
       IN  /\ ret' = [exc |-> h.exc, argnames |-> h.argnames,
                      argvalues |-> h.argvalues, idlist |-> h.idlist]
           /\ log' = log \o h.log
           /\ live' = live \o h.live
           /\ marks' = marks \cup h.marks
           /\ engine' = engine \o h.engine
    /\ pc' = "done"
    /\ op' = "test_pxe_provisioning.pytest_generate_tests"
    /\ UNCHANGED <<cfme_data, args>>
    /\ UNCHANGED othervars

NextPxe == PxeGenerateTests

SpecPxe == InitPxe /\ [][NextPxe]_vars

----------------------------------------------------------------------------
(* Claim about the hook of the PXE provisioning test                       *)

PxeHookRan == pc = "done" /\ op = "test_pxe_provisioning.pytest_generate_tests"

\* the names of the configured PXE servers
ConfiguredPxeNames ==
    {cfme_data.pxe_servers[i].data["name"] : i \in 1..Len(cfme_data.pxe_servers)}

\* the item is an infra provider whose provisioning data is complete and
\* names a configured PXE server and a configured customization template
PxeProvisionable(item) ==
    /\ item.data["type"].v \in infra_provider_type_map
    /\ "provisioning" \in DOMAIN item.data
    /\ item.data["provisioning"].kind = "dict"
    /\ DOMAIN item.data["provisioning"].v # {}
    /\ RequiredProvisioningKeys \subseteq DOMAIN item.data["provisioning"].v
    /\ item.data["provisioning"].v.pxe_server \in ConfiguredPxeNames
    /\ cfme_data.customization_templates # NoSection
    /\ item.data["provisioning"].v.pxe_kickstart.v
           \in cfme_data.customization_templates.keys

\* C26: the hook hands to parametrize only rows of providers whose
\* provisioning data is non-empty, has the nine required keys, names a
\* configured PXE server and a configured customization template; each such
\* row ends with the two values for pxe_server and pxe_cust_template and is as
\* long as the extended argnames; the ids are the inventory keys of the rows,
\* in the same order.
C26_PxeRowsFilteredAndExtended ==
    (PxeHookRan /\ ret.exc = "none") =>
        /\ Len(ret.idlist) = Len(ret.argvalues)
        /\ ret.idlist = KeysOf(SelectSeq(Inventory, PxeProvisionable))
        /\ Len(ret.argnames) >= 3
        /\ ret.argnames[1] = "provisioning"
        /\ SubSeq(ret.argnames, Len(ret.argnames) - 1, Len(ret.argnames))
               = <<"pxe_server", "pxe_cust_template">>
        /\ \A r \in 1..Len(ret.argvalues) :
               LET row == ret.argvalues[r]
                   item == ItemOf(Inventory, ret.idlist[r])
                   n == Len(ret.argnames)
               IN  /\ PxeProvisionable(item)
                   /\ Len(row) = n
                   /\ row[1] = item.data["provisioning"]
                   /\ row[n - 1] = get_pxe_server_from_config(
                                       item.data["provisioning"].v.pxe_server.v)
                   /\ row[n] = get_template_from_config(
                                   item.data["provisioning"].v.pxe_kickstart.v)
                   /\ \A j \in 2..(n - 2) :
                          IsSpecialValue(ret.argnames[j], row[j], item)
        /\ \A e \in 1..Len(engine) :
               /\ engine[e].argnames = ret.argnames
               /\ engine[e].argvalues = ret.argvalues
               /\ engine[e].kwargs.ids = ret.idlist

\* of two providers the first names a kickstart that is not configured and the
\* second qualifies: one row is handed over, with the declared special values
C26_Witness ==
    /\ PxeHookRan
    /\ ret.exc = "none"
    /\ Len(Inventory) >= 2
    /\ Len(ret.argvalues) = 1
    /\ ~PxeProvisionable(Inventory[1])
    /\ "provisioning" \in DOMAIN Inventory[1].data
    /\ Inventory[1].data["provisioning"] = FullProvisioning("N_pxe1", "ks2")
    /\ Len(ret.argnames) = 5
    /\ Len(engine) = 1

----------------------------------------------------------------------------
(* utils/db.py: Db and its table cache                                     *)

\* the hostnames of the databases the Db instances are made for
Hostnames == {"10.0.0.1", "10.0.0.2"}

\* the tables of the database at a hostname; vms is in both databases
TablesAt(hostname) ==
    IF hostname = "10.0.0.1" THEN {"vms", "hosts", "join_table", "configurations"}
    ELSE {"vms", "join_table", "configurations"}

\* join tables have no primary key: no class can be made for them
HasPrimaryKey(table_name) == table_name # "join_table"

\* the table names asked for; no database has no_such_table
TableNames == {"vms", "hosts", "join_table", "configurations", "no_such_table"}

\* the rows of the configurations table of a database: typ -> the settings
\* yaml, loaded
ConfigurationsAt(hostname) ==
    [typ \in {"vmdb"} |-> Dict([server |-> Str(hostname)])]

\* the yaml names asked for
ConfigNames == {"vmdb", "no_such_config"}

\* type(str(table_name), (self.table_base,), table_dict): the class made from
\* the table that self's metadata reflected from self's database
TableClass(self, table_name) ==
    [kind |-> "table_cls", tablename |-> table_name, hostname |-> self.hostname]

\* a dict with one more item
DictSet(d, key, value) ==
    [k \in DOMAIN d \cup {key} |-> IF k = key THEN value ELSE d[k]]

\* Db.reflect_table(table_name): self.metadata.reflect raises
\* InvalidRequestError for a table the database does not have
Db_reflect_table(self, table_name) ==
    IF table_name \in TablesAt(self.hostname)
    THEN [exc |-> "none", self |-> [self EXCEPT !.reflected = @ \cup {table_name}]]
    ELSE [exc |-> "InvalidRequestError", self |-> self]

\* Db._table(table_name): cache is Db._table_cache, shared by all instances
Db_table(cache, self, table_name) ==
    IF table_name \in DOMAIN cache
    THEN [exc |-> "none", v |-> cache[table_name], cache |-> cache, self |-> self,
          log |-> <<>>]
    ELSE Bind(Db_reflect_table(self, table_name), LAMBDA reflected :
             IF reflected.exc # "none"
             THEN [exc |-> reflected.exc, v |-> PyNone, cache |-> cache,
                   self |-> reflected.self, log |-> <<>>]
             ELSE IF ~HasPrimaryKey(table_name)
             THEN [exc |-> "none", v |-> PyNone, cache |-> cache,
                   self |-> reflected.self,
                   log |-> <<[level |-> "info",
                              msg |-> "Unable to create table class for table \"%s\""]>>]
             ELSE [exc |-> "none", v |-> TableClass(self, table_name),
                   cache |-> DictSet(cache, table_name, TableClass(self, table_name)),
                   self |-> reflected.self, log |-> <<>>])

\* Db.__getitem__(table_name)
Db_getitem(cache, self, table_name) ==
    Bind(Db_table(cache, self, table_name), LAMBDA r :
        IF r.exc = "InvalidRequestError" THEN [r EXCEPT !.exc = "KeyError"] ELSE r)

\* Db.get(table_name, default)
Db_get(cache, self, table_name, default) ==
    Bind(Db_getitem(cache, self, table_name), LAMBDA r :
        IF r.exc = "KeyError" THEN [r EXCEPT !.exc = "none", !.v = default] ELSE r)

\* every table name, in sorted order
SortedTableNames == <<"configurations", "hosts", "join_table", "vms">>

\* Db.table_names: the sorted names of the tables of the database
table_names(self) ==
    SelectSeq(SortedTableNames, LAMBDA t : t \in TablesAt(self.hostname))

\* a generator over the tables of the instance: the table names are read
\* when it is made, pos counts the names it has gone through
Generator(kind, self) ==
    [kind |-> kind, hostname |-> self.hostname, names |-> table_names(self),
     pos |-> 0]

\* Db.values(): a generator of self[table_name] over the table names; making
\* it gets no table
Db_values(self) == Generator("values", self)

\* Db.items(): izip of the generator of the names and the generator of the
\* tables; making it gets no table
Db_items(self) == Generator("items", self)

\* next(g) on a generator made by Db.values or Db.items: StopIteration after
\* the last name, otherwise self[table_name] is got for the next name and
\* given back, paired with the name by items; a generator that raised is
\* finished
generator_next(cache, self, g) ==
    IF g.pos >= Len(g.names)
    THEN [exc |-> "StopIteration", v |-> PyNone, cache |-> cache, self |-> self,
          log |-> <<>>, g |-> g]
    ELSE Bind(Db_getitem(cache, self, g.names[g.pos + 1]), LAMBDA r :
             [exc |-> r.exc,
              v |-> IF r.exc # "none" THEN PyNone
                    ELSE IF g.kind = "items" THEN <<g.names[g.pos + 1], r.v>>
                    ELSE r.v,
              cache |-> r.cache, self |-> r.self, log |-> r.log,
              g |-> [g EXCEPT !.pos = IF r.exc = "none" THEN g.pos + 1
                                      ELSE Len(g.names)]])

\* db_yamls(db): the rows of the configurations table, queried in a session
\* of db; a table that gave no class has no attribute typ
db_yamls(cache, db) ==
    Bind(Db_getitem(cache, db, "configurations"), LAMBDA r :
        IF r.exc # "none" THEN r
        ELSE IF r.v = PyNone THEN [r EXCEPT !.exc = "AttributeError"]
        ELSE [r EXCEPT !.v = ConfigurationsAt(db.hostname)])

\* get_yaml_config(config_name, db)
get_yaml_config(cache, config_name, db) ==
    Bind(db_yamls(cache, db), LAMBDA r :
        IF r.exc # "none" THEN r
        ELSE IF config_name \in DOMAIN r.v THEN [r EXCEPT !.v = r.v[config_name]]
        ELSE [r EXCEPT !.exc = "KeyError", !.v = PyNone])

\* Db(hostname): nothing reflected yet
Db(hostname) == [hostname |-> hostname, reflected |-> {}]

\* cfmedb, the instance of the default settings
cfmedb == "10.0.0.1"

\* most records kept in the log
MaxLog == 2

\* most generators made
MaxGenerators == 1

InitDb ==
    /\ cfme_data = EmptyConfig
    /\ pc = "call"
    /\ op = ""
    /\ args = <<>>
    /\ ret = PyNone
    /\ log = <<>>
    /\ live = <<>>
    /\ engine = <<>>
    /\ marks = {}
    /\ files = <<>>
    /\ conf = <<>>
    /\ ui = <<>>
    /\ entity = <<>>
    /\ nav_tree = {}
    /\ branches = {}
    /\ table_cache = <<>>
    /\ dbs = [h \in Hostnames |-> Db(h)]
    /\ policy_rows = <<>>
    /\ location = ""
    /\ generators = <<>>

\* a call on the instance of hostname h ran with result r
DbCalled(name, h, callargs, r) ==
    /\ Len(log \o r.log) <= MaxLog
    /\ table_cache' = r.cache
    /\ dbs' = [dbs EXCEPT ![h] = r.self]
    /\ ret' = [exc |-> r.exc, v |-> r.v]
    /\ args' = callargs
    /\ log' = log \o r.log
    /\ op' = name
    /\ pc' = "done"
    /\ UNCHANGED <<cfme_data, live, engine, marks, files, conf, ui, entity,
                   nav_tree, branches, policy_rows, location>>

\* db[table_name] on one of the instances
DbGetItem ==
    \E h \in Hostnames, table_name \in TableNames :
        /\ DbCalled("Db.__getitem__", h, [hostname |-> h, table_name |-> table_name],
                    Db_getitem(table_cache, dbs[h], table_name))
        /\ UNCHANGED generators

\* db.get(table_name), with the default None
DbGet ==
    \E h \in Hostnames, table_name \in TableNames :
        /\ DbCalled("Db.get", h, [hostname |-> h, table_name |-> table_name],
                    Db_get(table_cache, dbs[h], table_name, PyNone))
        /\ UNCHANGED generators

\* db.reflect_table(table_name)
DbReflectTable ==
    \E h \in Hostnames, table_name \in TableNames :
        LET r == Db_reflect_table(dbs[h], table_name)
        IN  /\ DbCalled("Db.reflect_table", h,
                        [hostname |-> h, table_name |-> table_name],
                        [exc |-> r.exc, v |-> PyNone, cache |-> table_cache,
                         self |-> r.self, log |-> <<>>])
            /\ UNCHANGED generators

\* a generator was made on the instance of hostname h: it is given back and
\* kept, no table is got
GeneratorMade(name, h, g) ==
    /\ Len(generators) < MaxGenerators
    /\ DbCalled(name, h, [hostname |-> h],
                [exc |-> "none", v |-> g, cache |-> table_cache, self |-> dbs[h],
                 log |-> <<>>])
    /\ generators' = Append(generators, g)

\* db.values()
DbValues ==
    \E h \in Hostnames : GeneratorMade("Db.values", h, Db_values(dbs[h]))

\* db.items()
DbItems ==
    \E h \in Hostnames : GeneratorMade("Db.items", h, Db_items(dbs[h]))

\* next(g) on one of the generators made, also after its last item
GeneratorNext ==
    \E i \in 1..Len(generators) :
        LET g == generators[i]
            r == generator_next(table_cache, dbs[g.hostname], g)
        IN  /\ DbCalled("next", g.hostname, [hostname |-> g.hostname, generator |-> i], r)
            /\ generators' = [generators EXCEPT ![i] = r.g]

\* db_yamls(db), db_yamls() being db_yamls(cfmedb)
DbYamls ==
    \E h \in Hostnames, passed \in BOOLEAN :
        /\ ~passed => h = cfmedb
        /\ DbCalled("db_yamls", h, [hostname |-> h, passed |-> passed],
                    db_yamls(table_cache, dbs[h]))
        /\ UNCHANGED generators

\* get_yaml_config(config_name, db)
GetYamlConfig ==
    \E h \in Hostnames, passed \in BOOLEAN, config_name \in ConfigNames :
        /\ ~passed => h = cfmedb
        /\ DbCalled("get_yaml_config", h,
                    [hostname |-> h, passed |-> passed, config_name |-> config_name],
                    get_yaml_config(table_cache, config_name, dbs[h]))
        /\ UNCHANGED generators

NextDb ==
    \/ DbGetItem
    \/ DbGet
    \/ DbReflectTable
    \/ DbValues
    \/ DbItems
    \/ GeneratorNext
    \/ DbYamls
    \/ GetYamlConfig

SpecDb == InitDb /\ [][NextDb]_vars

\* C28: a table class that db[table_name] returns was reflected from the
\* database of the Db instance that was asked, never from the database of
\* another instance through which it was cached.
C28_TableFromOwnDatabase ==
    (pc = "done" /\ op = "Db.__getitem__" /\ ret.exc = "none" /\ ret.v # PyNone) =>
        ret.v.hostname = args.hostname

\* an access of the Config has been made, by item or by attribute
Accessed == op \in {"getitem", "getattribute"}

\* the access found its name in the cache: the cached value is returned, no
\* file is read and the cache stays as it was
ServedFromCache ==
    /\ ret.exc = "none"
    /\ ret.v = args.cached[args.key]
    /\ ret.reads = <<>>
    /\ conf = args.cached

\* the config that loading key gives: the base yaml, with the local yaml
\* merged onto it when there is one
LoadedConfig(key) ==
    IF local_yaml(key) \in DOMAIN files
    THEN update(construct_yaml_map(files[key]),
                construct_yaml_map(files[local_yaml(key)]), 1)
    ELSE [exc |-> "none", v |-> construct_yaml_map(files[key])]

\* the access did not find its name in the cache: the base yaml is read first;
\* a successful load read the base and asked for the local yaml, and cached
\* what it returns; a failed load leaves the cache as it was
LoadedOnMiss ==
    /\ Len(ret.reads) >= 1
    /\ ret.reads[1] = args.key
    /\ ret.exc = "none" =>
           /\ ret.reads = <<args.key, local_yaml(args.key)>>
           /\ ret.v = LoadedConfig(args.key).v
           /\ conf = cache_set(args.cached, args.key, ret.v)
    /\ ret.exc # "none" =>
           /\ conf = args.cached
           /\ args.key \notin DOMAIN conf
    /\ args.key \notin DOMAIN files => ret.exc = ConfigNotFound

\* C29 as stated: every access of a name, by item or by attribute, is served
\* from the cache when the name is cached and loads (base yaml, then the local
\* overlay) and caches otherwise; a failed load leaves the cache as it was.
C29_EveryAccessCachedOrLoaded ==
    Accessed =>
        IF args.key \in DOMAIN args.cached THEN ServedFromCache ELSE LoadedOnMiss

\* C29, amended: an access by item, or by an attribute name that the normal
\* attribute lookup of the Config object does not find, is served from the
\* cache without reading a file when the name is cached, and otherwise loads
\* the base yaml, merges the local overlay if present and caches the result,
\* a failed load leaving the cache exactly as it was.  An attribute name that
\* the object has (keys, update, NotFoundException, ...) returns that
\* attribute: nothing is loaded, read or cached, whatever the cache holds.
C29_AccessCachedOrLoadedUnlessObjectAttribute ==
    Accessed =>
        IF op = "getattribute" /\ args.key \in ObjectAttributes
        THEN /\ ret.exc = "none"
             /\ ret.v = [kind |-> "attribute", name |-> args.key]
             /\ ret.reads = <<>>
             /\ conf = args.cached
        ELSE IF args.key \in DOMAIN args.cached
             THEN ServedFromCache
             ELSE LoadedOnMiss

\* cfme_data was loaded with its overlay by the first access and the second
\* access, by attribute, is served from the cache
C29_Witness ==
    /\ pc = "done"
    /\ op = "getattribute"
    /\ args.key = "cfme_data"
    /\ DOMAIN files = {"cfme_data", "cfme_data.local"}
    /\ DOMAIN args.cached = {"cfme_data"}
    /\ args.cached["cfme_data"] = LoadedConfig("cfme_data").v
    /\ args.cached["cfme_data"] # construct_yaml_map(files["cfme_data"])
    /\ ret.exc = "none"
    /\ ret.v = args.cached["cfme_data"]
    /\ ret.reads = <<>>
    /\ conf = args.cached

-----------------------------------------------------------------------------
(* Policy profiles of a host: cfme.infrastructure.host                     *)

\* the policy profile names used
ProfileNames == {"p1", "p2", "p3"}

\* sel.elements(locator)
Elements(locator) == [fn |-> "sel.elements", locator |-> locator]

\* Host._all_available_policy_profiles: the profile rows of the tree, which
\* sel.elements(pp_rows_locator) gives
all_available_policy_profiles(rows) == DOMAIN rows

\* Host._assigned_policy_profiles: the text of the rows that are checked
assigned_policy_profiles(rows) ==
    {row \in all_available_policy_profiles(rows) : rows[row]}

\* Host._unassigned_policy_profiles: the text of the rows that are not checked
unassigned_policy_profiles(rows) ==
    {row \in all_available_policy_profiles(rows) : ~rows[row]}

\* faulty variant: every requested profile is selected
assign_unassign_policy_profiles_selects_all(self, rows, assign, policy_profile_names) ==
    LET policy_profiles == policy_profile_names
    IN  [exc |-> "none",
         ui |-> Navigated("sel.force_navigate",
                          "infrastructure_host_policy_assignment", [host |-> self])
                \o <<Elements("pp_rows_locator")>>
                \o <<Fill("manage_policies_form", [policy_select |-> policy_profiles],
                       "manage_policies_page.save_button")>>]

\* Host._assign_unassign_policy_profiles(assign, *policy_profile_names): rows
\* are the profile rows the page shows after the navigation
assign_unassign_policy_profiles(self, rows, assign, policy_profile_names) ==
    LET policy_profiles == policy_profile_names
        do_not_process == IF assign THEN assigned_policy_profiles(rows)
                          ELSE unassigned_policy_profiles(rows)
    IN  [exc |-> "none",
         ui |-> Navigated("sel.force_navigate",
                          "infrastructure_host_policy_assignment", [host |-> self])
                \o <<Elements("pp_rows_locator")>>
                \o <<Fill("manage_policies_form",
                       [policy_select |-> policy_profiles \ do_not_process],
                       "manage_policies_page.save_button")>>]

\* Host.get_assigned_policy_profiles()
get_assigned_policy_profiles(self, rows) ==
    [exc |-> "none",
     ui |-> Navigated("sel.force_navigate", "infrastructure_host_policy_assignment",
                      [host |-> self])
            \o <<Elements("pp_rows_locator")>>,
     v |-> assigned_policy_profiles(rows)]

\* Host.get_unassigned_policy_profiles()
get_unassigned_policy_profiles(self, rows) ==
    [exc |-> "none",
     ui |-> Navigated("sel.force_navigate", "infrastructure_host_policy_assignment",
                      [host |-> self])
            \o <<Elements("pp_rows_locator")>>,
     v |-> unassigned_policy_profiles(rows)]

\* Host.assign_policy_profiles(*policy_profile_names)
assign_policy_profiles(self, rows, policy_profile_names) ==
    assign_unassign_policy_profiles(self, rows, TRUE, policy_profile_names)

\* Host.unassign_policy_profiles(*policy_profile_names)
unassign_policy_profiles(self, rows, policy_profile_names) ==
    assign_unassign_policy_profiles(self, rows, FALSE, policy_profile_names)

\* the trees drawn: each profile name is no row, an unchecked row or a checked one
PolicyTrees ==
    UNION {[S -> BOOLEAN] : S \in SUBSET ProfileNames}

PolicyHost ==
    [class |-> "Host", name |-> Str("h1"), hostname |-> Str("h1.example.com"),
     ip_address |-> PyNone, custom_ident |-> PyNone, host_platform |-> PyNone,
     ipmi_address |-> PyNone, mac_address |-> PyNone, credentials |-> PyNone,
     ipmi_credentials |-> PyNone, interface_type |-> Str("lan")]

InitPolicy ==
    /\ cfme_data = EmptyConfig
    /\ pc = "call"
    /\ op = ""
    /\ args = PyNone
    /\ entity = PolicyHost
    /\ policy_rows \in PolicyTrees
    /\ location = ""
    /\ generators = <<>>
    /\ ret = PyNone
    /\ log = <<>>
    /\ live = <<>>
    /\ engine = <<>>
    /\ marks = {}
    /\ files = <<>>
    /\ conf = <<>>
    /\ ui = <<>>
    /\ nav_tree = {}
    /\ branches = {}
    /\ table_cache = <<>>
    /\ dbs = <<>>

\* the call before this one: its method, the profiles it was given and what
\* it selected
PreviousCall ==
    IF pc = "call" THEN PyNone
    ELSE [op |-> op, names |-> args.names, selected |-> ret.selected]

\* a call of one of the two methods ran on the page; args keeps the rows the
\* page showed to it and the call before it. What the fill and the save do
\* to the check marks is the page's business: the rows are the same
\* afterwards and their marks are any
PolicyCalled(name, names, r) ==
    /\ pc \in {"call", "called"}
    /\ pc' = IF pc = "call" THEN "called" ELSE "done"
    /\ op' = name
    /\ args' = [names |-> names, before |-> policy_rows, previous |-> PreviousCall]
    /\ ret' = [exc |-> r.exc, selected |-> r.ui[Len(r.ui)].values.policy_select]
    /\ ui' = ui \o r.ui
    /\ policy_rows' \in [DOMAIN policy_rows -> BOOLEAN]
    /\ UNCHANGED <<cfme_data, log, live, engine, marks, files, conf, entity,
                   nav_tree, branches, table_cache, dbs, location, generators>>

AssignPolicyProfiles ==
    \E names \in SUBSET ProfileNames :
        PolicyCalled("Host.assign_policy_profiles", names,
                     assign_policy_profiles(entity, policy_rows, names))

UnassignPolicyProfiles ==
    \E names \in SUBSET ProfileNames :
        PolicyCalled("Host.unassign_policy_profiles", names,
                     unassign_policy_profiles(entity, policy_rows, names))

\* one of the two getters ran on the page: nothing is requested or selected
PolicyGot(name, r) ==
    /\ pc \in {"call", "called"}
    /\ pc' = IF pc = "call" THEN "called" ELSE "done"
    /\ op' = name
    /\ args' = [names |-> {}, before |-> policy_rows, previous |-> PreviousCall]
    /\ ret' = [exc |-> r.exc, selected |-> {}, v |-> r.v]
    /\ ui' = ui \o r.ui
    /\ UNCHANGED <<cfme_data, log, live, engine, marks, files, conf, entity,
                   nav_tree, branches, table_cache, dbs, policy_rows, location,
                   generators>>

GetAssignedPolicyProfiles ==
    PolicyGot("Host.get_assigned_policy_profiles",
              get_assigned_policy_profiles(entity, policy_rows))

GetUnassignedPolicyProfiles ==
    PolicyGot("Host.get_unassigned_policy_profiles",
              get_unassigned_policy_profiles(entity, policy_rows))

NextPolicy ==
    \/ AssignPolicyProfiles
    \/ UnassignPolicyProfiles
    \/ GetAssignedPolicyProfiles
    \/ GetUnassignedPolicyProfiles

SpecPolicy == InitPolicy /\ [][NextPolicy]_vars

\* one of the two policy profile methods has run
PolicyCall ==
    op \in {"Host.assign_policy_profiles", "Host.unassign_policy_profiles"}

\* the check mark the call asks for: set when assigning, cleared when unassigning
TargetMark == op = "Host.assign_policy_profiles"

\* the rows that the page showed with the asked mark when the call was made
AlreadyInTarget == {row \in DOMAIN args.before : args.before[row] = TargetMark}

\* the call repeats the call before it: same method, same profiles
Repeated ==
    /\ pc = "done"
    /\ args.previous.op = op
    /\ args.previous.names = args.names

\* the page kept what the call before asked for: every requested profile
\* that is a row is shown with the asked mark
PageKeptTheMarks ==
    \A row \in args.names \cap DOMAIN args.before : args.before[row] = TargetMark

\* no row that was requested and had the asked mark is selected
NeverToggledOut == \A row \in args.names \cap AlreadyInTarget : row \notin ret.selected

\* C30 as stated: the profiles selected in the tree are the requested ones
\* minus those already in the target state, so a repeated assign or unassign
\* call selects nothing (the page having kept the marks that the first call
\* asked for), and no profile in the requested state is selected.
C30_RepeatSelectsNothing ==
    PolicyCall =>
        /\ ret.selected = args.names \ AlreadyInTarget
        /\ (Repeated /\ PageKeptTheMarks) => ret.selected = {}
        /\ NeverToggledOut

\* C30 amended: the profiles selected are the requested ones minus the rows
\* that the page shows in the target state when the call is made, so a
\* requested row in the target state is never selected. A repeated call
\* selects nothing exactly when every requested profile is then a row shown
\* in the target state; a requested name that is no row of the tree is in
\* neither set of rows and is selected by the call and by every repetition
\* of it.
C30_RepeatSelectsWhatIsNotInTarget ==
    PolicyCall =>
        /\ ret.exc = "none"
        /\ ret.selected = args.names \ AlreadyInTarget
        /\ NeverToggledOut
        /\ Repeated =>
               /\ ret.selected = {} <=> args.names \subseteq AlreadyInTarget
               /\ PageKeptTheMarks =>
                      ret.selected = args.names \ DOMAIN args.before
        /\ \A name \in args.names \ DOMAIN args.before : name \in ret.selected

\* p1 and p2 are assigned twice: the first call selected p1 only, p2 being
\* assigned already; the page then shows both assigned and the second call
\* selects nothing
C30_Witness ==
    /\ PolicyCall
    /\ Repeated
    /\ op = "Host.assign_policy_profiles"
    /\ args.names = {"p1", "p2"}
    /\ args.previous.selected = {"p1"}
    /\ DOMAIN args.before = ProfileNames
    /\ args.before["p1"] /\ args.before["p2"] /\ ~args.before["p3"]
    /\ ret.exc = "none"
    /\ ret.selected = {}
    /\ Len(ui) = 10

====
